---- MODULE Spec2Model ----
(***************************************************************************)
(* Model of the enhanced WAV tools of codec2_simplified:                   *)
(*   - the reader, sample decoder, resampler and writer of wav_util_enhanced*)
(*     (src/tools/codec2_encode_enhanced.c, second half),                  *)
(*   - the main of the enhanced encoder (same file, first half),           *)
(*   - the main of the enhanced decoder (src/unnamed/part_001).            *)
(*                                                                         *)
(* Files are sequences of bytes.  The chunk scanner, the sample decoder,   *)
(* the resampler and the writer work on those bytes the way the C code     *)
(* does: fread/fseek/feof on a FILE position, little-endian field reads    *)
(* that return 0 on a short read, integer division that truncates.         *)
(*                                                                         *)
(* The resampler's doubles are modelled exactly as rationals with the      *)
(* denominator TARGET_RATE (8000): resample_phase holds the numerator.     *)
(* The source rates of the model (0, 125, 2000, 4000, 6000, 8000, 12000,   *)
(* 16000, 20000, 192000) give ratios that are dyadic, so the C double      *)
(* arithmetic is exact on them and the rational model computes the same    *)
(* values.                                                                 *)
(*                                                                         *)
(* Specifications: SpecScan (chunk scanner), Spec (read calls),            *)
(* SpecTrail (read calls on containers with a chunk after the data),       *)
(* SpecConvert and SpecResample (one call each), SpecWrite (writer),       *)
(* SpecEncode and SpecDecode (the two mains), SpecFaults (the mains with   *)
(* failing fopen, malloc and codec2_create), SpecLoop (the encode loop     *)
(* under weak fairness).                                                   *)
(*                                                                         *)
(* The codec2 library is outside the modelled code: a codec is its frame   *)
(* geometry, and what codec2_encode and codec2_decode store is a choice    *)
(* among a few byte and sample patterns.                                   *)
(***************************************************************************)
EXTENDS Integers, Sequences, FiniteSets, TLC

\* ------------------------------------------------------------------ bounds
MaxChunks == 4      \* chunks in a scanned container
MaxSkip   == 3      \* payload of the non-empty unknown chunk, in bytes
MaxFrames == 4      \* source frames in the data chunk of a container that is read
MaxReq    == 3      \* largest num_samples a read call asks for
MaxChannels == 3    \* channels of a block given to convert_to_16bit
MaxWrite  == 2      \* largest num_samples of a write call
MaxOut    == 4      \* samples appended to an output container
MaxSamples == 9     \* source frames of a container that is encoded
MaxC2Bytes == 5     \* bytes after the header of a compressed file that is decoded
MaxInput  == 3      \* samples in the input of a single resampler call
MaxPrior  == 3      \* outputs produced before a single resampler call

\* ------------------------------------------------------- program constants
WAV_FORMAT_PCM == 1
FOURCC_RIFF == 1179011410
FOURCC_WAVE == 1163280727
FOURCC_FMT  == 544501094
FOURCC_DATA == 1635017060
FOURCC_LIST == 1414744396
TARGET_RATE == 8000
TARGET_CHANNELS == 1
TARGET_BITS == 16
RESAMPLE_BUFFER_SIZE == 4096
FMT_FIXED_SIZE == 16

\* ------------------------------------------------------------ arithmetic
Min(a, b) == IF a < b THEN a ELSE b

\* a division that rounds toward minus infinity instead
FloorDiv(a, b) == a \div b

\* C integer division: truncates toward zero (b > 0)
TruncDiv(a, b) == IF a >= 0 THEN a \div b ELSE -((-a) \div b)

\* (short)x for an int x: wrap to 16 bits, two's complement
ToShort(x) == LET m == x % 65536 IN IF m >= 32768 THEN m - 65536 ELSE m

\* The member of a one-element set.  Only({ e(x) : x \in {v} }) is e(v) with
\* v evaluated once and x bound to its value: the model uses it where the C
\* code stores an intermediate result in a local variable.
Only(S) == CHOOSE v \in S : TRUE

\* ------------------------------------------------ little-endian byte fields
write_le32(v) ==
    << v % 256, (v \div 256) % 256, (v \div 65536) % 256, (v \div 16777216) % 256 >>

write_le16(v) == << v % 256, (v \div 256) % 256 >>

\* ------------------------------------------------------------ stdio model
\* A FILE is a byte sequence f with a stream state fp = [pos, eof].
\* fread returns the bytes it got; a short read sets the end-of-file flag.
fread(f, fp, n) ==
    Only({ LET avail == IF Len(f) > p.pos THEN Len(f) - p.pos ELSE 0
               got   == IF n < avail THEN n ELSE avail
           IN  [ bytes |-> SubSeq(f, p.pos + 1, p.pos + got),
                 fp    |-> [pos |-> p.pos + got, eof |-> p.eof \/ got < n] ]
           : p \in {fp} })

\* fseek(file, off, SEEK_CUR): may move past the end; clears the eof flag
fseek_cur(fp, off) == [pos |-> fp.pos + off, eof |-> FALSE]

\* (fields of the model's inputs stay below 2^31, the range of TLC's integers)
read_le32(f, fp) ==
    Only({ [ val |-> IF Len(r.bytes) # 4 THEN 0
                     ELSE r.bytes[1] + 256 * r.bytes[2] + 65536 * r.bytes[3]
                          + 16777216 * r.bytes[4],
             fp  |-> r.fp ]
           : r \in {fread(f, fp, 4)} })

read_le16(f, fp) ==
    Only({ [ val |-> IF Len(r.bytes) # 2 THEN 0 ELSE r.bytes[1] + 256 * r.bytes[2],
             fp  |-> r.fp ]
           : r \in {fread(f, fp, 2)} })

\* ------------------------------------------------------------- containers
\* A container is described by its group magic, its form identifier, its
\* chunks (tag, declared size, payload bytes) and the number of bytes of the
\* serialized file that are kept (a smaller number is a truncated file).
RECURSIVE ChunkBytes(_)
ChunkBytes(chunks) ==
    IF chunks = << >> THEN << >>
    ELSE LET c == Head(chunks)
         IN  write_le32(c.tag) \o write_le32(c.size) \o c.body \o ChunkBytes(Tail(chunks))

FullBytes(magic, form, chunks) ==
    LET body == ChunkBytes(chunks)
    IN  write_le32(magic) \o write_le32(4 + Len(body)) \o write_le32(form) \o body

Serialize(c) == SubSeq(FullBytes(c.magic, c.form, c.chunks), 1, c.keep)

\* the 16 fixed bytes of a format chunk, followed by `extra` extension bytes
FmtChunk(format, channels, rate, bits, extra) ==
    [ tag  |-> FOURCC_FMT,
      size |-> FMT_FIXED_SIZE + extra,
      body |-> write_le16(format) \o write_le16(channels) \o write_le32(rate)
               \o write_le32((rate * channels * bits) \div 8)
               \o write_le16((channels * bits) \div 8) \o write_le16(bits)
               \o [i \in 1..extra |-> 0] ]

DataChunk(bytes) == [tag |-> FOURCC_DATA, size |-> Len(bytes), body |-> bytes]

\* an unknown chunk of n payload bytes (each 0x55)
UnknownChunk(tag, n) == [tag |-> tag, size |-> n, body |-> [i \in 1..n |-> 85]]

\* ------------------------------------------------------------ the stream
\* wav_enhanced_t after memset(wav, 0, sizeof ...)
ZeroWav ==
    [ original_sample_rate |-> 0, original_channels |-> 0,
      original_bits_per_sample |-> 0, original_format |-> 0,
      target_sample_rate |-> 0, target_channels |-> 0, target_bits_per_sample |-> 0,
      total_samples |-> 0, samples_read |-> 0, samples_written |-> 0,
      data_start_pos |-> 0, data_size |-> 0,
      resample_ratio |-> 0, resample_phase |-> 0, resample_buffer_size |-> 0,
      bytes_written |-> 0 ]

\* --------------------------------------------------------- chunk scanner
\* The state of the scan loop of wav_enhanced_open_read: the stream state of
\* the file, the two found flags, the struct being filled, whether the loop
\* left by `break`, and whether the division of line 448 had a zero divisor.
ScanStart(fp) ==
    [ fp |-> fp, found_fmt |-> FALSE, found_data |-> FALSE, stopped |-> FALSE,
      divzero |-> FALSE, nfmt |-> 0, wav |-> ZeroWav ]

\* a scanner that also skips a pad byte after an odd-sized chunk
SkipPadded(fp, chunk_size) ==
    IF chunk_size > 0 THEN fseek_cur(fp, chunk_size + (chunk_size % 2)) ELSE fp

\* skip of an unknown chunk (lines 457-459)
SkipChunk(fp, chunk_size) ==
    IF chunk_size > 0 THEN fseek_cur(fp, chunk_size) ELSE fp

\* the six fixed fields of the format chunk, read one after the other
\* (lines 424-429): format, channels, sample rate, byte rate, block align, bits
FmtFields(f, fp) ==
    Only({ Only({ Only({ Only({ Only({ Only({
        [ format |-> a.val, channels |-> b.val, rate |-> c.val, bits |-> g.val,
          fp |-> g.fp ]
        : g \in {read_le16(f, e.fp)} })
        : e \in {read_le16(f, d.fp)} })
        : d \in {read_le32(f, c.fp)} })
        : c \in {read_le32(f, b.fp)} })
        : b \in {read_le16(f, a.fp)} })
        : a \in {read_le16(f, fp)} })

\* a format chunk branch that keeps the fields of the first format chunk
ScanFmtKeepFirst(f, s, fp, chunk_size) ==
    Only({ [ s EXCEPT !.fp = IF chunk_size > FMT_FIXED_SIZE
                             THEN fseek_cur(h.fp, chunk_size - FMT_FIXED_SIZE)
                             ELSE h.fp,
                      !.found_fmt = TRUE, !.nfmt = @ + 1,
                      !.wav.original_format = IF s.found_fmt THEN @ ELSE h.format,
                      !.wav.original_channels = IF s.found_fmt THEN @ ELSE h.channels,
                      !.wav.original_sample_rate = IF s.found_fmt THEN @ ELSE h.rate,
                      !.wav.original_bits_per_sample = IF s.found_fmt THEN @ ELSE h.bits ]
           : h \in {FmtFields(f, fp)} })

\* the format chunk branch (lines 422-436)
ScanFmt(f, s, fp, chunk_size) ==
    Only({ [ s EXCEPT !.fp = IF chunk_size > FMT_FIXED_SIZE
                             THEN fseek_cur(h.fp, chunk_size - FMT_FIXED_SIZE)
                             ELSE h.fp,
                      !.found_fmt = TRUE, !.nfmt = @ + 1,
                      !.wav.original_format = h.format,
                      !.wav.original_channels = h.channels,
                      !.wav.original_sample_rate = h.rate,
                      !.wav.original_bits_per_sample = h.bits ]
           : h \in {FmtFields(f, fp)} })

\* the data chunk branch (lines 444-452); a zero divisor is recorded, the
\* quotient is then chosen by the caller
ScanData(s, fp, chunk_size) ==
    LET frame == (s.wav.original_channels * s.wav.original_bits_per_sample) \div 8
    IN  [ s EXCEPT !.fp = fp, !.found_data = TRUE, !.stopped = TRUE,
                   !.divzero = (frame = 0),
                   !.wav.data_start_pos = fp.pos,
                   !.wav.data_size = chunk_size,
                   !.wav.total_samples = IF frame = 0 THEN 0 ELSE chunk_size \div frame ]

\* one iteration of the scan loop (lines 419-460)
ScanStep(f, s) ==
    Only({ Only({
        IF id.val = FOURCC_FMT THEN ScanFmt(f, s, sz.fp, sz.val)
        ELSE IF id.val = FOURCC_DATA THEN ScanData(s, sz.fp, sz.val)
        ELSE [s EXCEPT !.fp = SkipChunk(sz.fp, sz.val)]
        : sz \in {read_le32(f, id.fp)} })
        : id \in {read_le32(f, s.fp)} })

\* the loop condition of line 418
ScanContinues(s) == ~s.fp.eof /\ (~s.found_fmt \/ ~s.found_data)

RECURSIVE ScanChunks(_, _)
ScanChunks(f, s) ==
    IF s.stopped \/ ~ScanContinues(s) THEN s
    ELSE Only({ ScanChunks(f, t) : t \in {ScanStep(f, s)} })

\* a test that asks for one of the two chunks only
MissingChunkLoose(s) == ~s.found_fmt /\ ~s.found_data

\* the test of line 463
MissingChunk(s) == ~s.found_fmt \/ ~s.found_data

\* What an open leaves behind: the value returned, the struct contents, the
\* stream state of the file, and which resources are still held.
\* an error return that frees the struct and forgets fclose
FailKeepsFile(fp) ==
    [ ret |-> "NULL", wav |-> ZeroWav, fp |-> fp, fileOpen |-> TRUE,
      heap |-> {}, divzero |-> FALSE, nfmt |-> 0 ]

\* the error returns of lines 399-404, 408-413 and 463-468: fclose, free, NULL
FailReturn(fp) ==
    [ ret |-> "NULL", wav |-> ZeroWav, fp |-> fp, fileOpen |-> FALSE,
      heap |-> {}, divzero |-> FALSE, nfmt |-> 0 ]

\* lines 470-483: target format, ratio, phase, resample buffer
FinishOpen(s) ==
    [ ret |-> "stream",
      wav |-> [ s.wav EXCEPT !.target_sample_rate = TARGET_RATE,
                             !.target_channels = TARGET_CHANNELS,
                             !.target_bits_per_sample = TARGET_BITS,
                             !.resample_ratio = s.wav.original_sample_rate,
                             !.resample_phase = 0,
                             !.resample_buffer_size = RESAMPLE_BUFFER_SIZE ],
      fp |-> s.fp, fileOpen |-> TRUE, heap |-> {"wav", "resample_buffer"},
      divzero |-> s.divzero, nfmt |-> s.nfmt ]

\* wav_enhanced_open_read on the file with bytes f (fopen and malloc succeed)
wav_enhanced_open_read(f) ==
    Only({
        IF riff.val # FOURCC_RIFF THEN FailReturn(riff.fp)
        ELSE Only({ Only({
            IF wave.val # FOURCC_WAVE THEN FailReturn(wave.fp)
            ELSE Only({
                IF MissingChunk(s) THEN [FailReturn(s.fp) EXCEPT !.divzero = s.divzero]
                ELSE FinishOpen(s)
                : s \in {ScanChunks(f, ScanStart(wave.fp))} })
            : wave \in {read_le32(f, size.fp)} })
            : size \in {read_le32(f, riff.fp)} })
        : riff \in {read_le32(f, [pos |-> 0, eof |-> FALSE])} })

\* ---------------------------------------------------------- sample decoder
\* (short) read of two little-endian bytes (the host is little-endian)
Signed16(lo, hi) == LET u == lo + 256 * hi IN IF u >= 32768 THEN u - 65536 ELSE u

\* a decoder that takes the 8-bit samples as signed bytes
ChannelValueSigned8(raw, input_bits, k) ==
    IF raw[k + 1] >= 128 THEN (raw[k + 1] - 256) * 256 ELSE raw[k + 1] * 256

\* a decoder that does not extend the sign of the 24-bit samples
ChannelValueUnsigned24(raw, input_bits, k) ==
    CASE input_bits = 8  -> (raw[k + 1] - 128) * 256
      [] input_bits = 16 -> Signed16(raw[2 * k + 1], raw[2 * k + 2])
      [] input_bits = 24 ->
            (raw[3 * k + 1] + 256 * raw[3 * k + 2] + 65536 * raw[3 * k + 3]) \div 256
      [] input_bits = 32 ->
            LET top == IF raw[4 * k + 4] >= 128 THEN raw[4 * k + 4] - 256
                       ELSE raw[4 * k + 4]
                v == top * 16777216 + 65536 * raw[4 * k + 3]
                     + 256 * raw[4 * k + 2] + raw[4 * k + 1]
            IN  v \div 65536

\* The 16-bit-range value of channel sample k (0-based) of the raw block:
\* the summand of lines 336, 347, 359-361 and 372
ChannelValue(raw, input_bits, k) ==
    CASE input_bits = 8  -> (raw[k + 1] - 128) * 256
      [] input_bits = 16 -> Signed16(raw[2 * k + 1], raw[2 * k + 2])
      [] input_bits = 24 ->
            LET u == raw[3 * k + 1] + 256 * raw[3 * k + 2] + 65536 * raw[3 * k + 3]
                sample == IF u >= 8388608 THEN u - 16777216 ELSE u
            IN  sample \div 256
      [] input_bits = 32 ->
            LET top == IF raw[4 * k + 4] >= 128 THEN raw[4 * k + 4] - 256
                       ELSE raw[4 * k + 4]
                v == top * 16777216 + 65536 * raw[4 * k + 3]
                     + 256 * raw[4 * k + 2] + raw[4 * k + 1]
            IN  v \div 65536

\* sum over the channels of frame i (the inner for loops)
RECURSIVE ChannelSum(_, _, _, _, _)
ChannelSum(raw, input_bits, channels, i, ch) ==
    IF ch >= channels THEN 0
    ELSE ChannelValue(raw, input_bits, i * channels + ch)
         + ChannelSum(raw, input_bits, channels, i, ch + 1)

SupportedBits == {8, 16, 24, 32}

\* a conversion that keeps the first channel of every frame
convert_first_channel(raw, samples, input_bits, channels) ==
    [ i \in 1..samples |-> ChannelValue(raw, input_bits, (i - 1) * channels) ]

\* convert_to_16bit (lines 325-383): one mono sample per frame
convert_to_16bit(raw, samples, input_bits, channels) ==
    IF input_bits \in SupportedBits
    THEN [ i \in 1..samples |->
             ToShort(TruncDiv(ChannelSum(raw, input_bits, channels, i - 1, 0), channels)) ]
    ELSE [ i \in 1..samples |-> 0 ]      \* default: memset(output, 0, ...)

\* -------------------------------------------------------------- resampler
\* One output of the interpolation (lines 304-308); frac = rem / TARGET_RATE
Interpolate(input, src_idx, rem) ==
    LET sample1 == input[src_idx + 1]
        sample2 == IF src_idx + 1 < Len(input) THEN input[src_idx + 2] ELSE sample1
    IN  ToShort(TruncDiv(sample1 * TARGET_RATE + rem * (sample2 - sample1), TARGET_RATE))

\* a loop that leaves only when src_idx is past the last input sample
ResampleLoopToLast(rate, phase, input, max_output_samples) ==
    LET src_idx(i) == (phase + i * rate) \div TARGET_RATE
        breaks == { i \in 0..(max_output_samples - 1) : src_idx(i) >= Len(input) }
        output_count == IF breaks = {} THEN max_output_samples
                        ELSE CHOOSE i \in breaks : \A j \in breaks : i <= j
    IN  [ k \in 1..output_count |->
            Interpolate(input, src_idx(k - 1), (phase + (k - 1) * rate) % TARGET_RATE) ]

\* the for loop of lines 297-309: output i (0-based) is computed for
\* i = 0, 1, ... until i reaches max_output_samples or the break of line 301
ResampleLoop(rate, phase, input, max_output_samples) ==
    LET src_idx(i) == (phase + i * rate) \div TARGET_RATE    \* positions over TARGET_RATE
        breaks == { i \in 0..(max_output_samples - 1) : src_idx(i) >= Len(input) - 1 }
        output_count == IF breaks = {} THEN max_output_samples
                        ELSE CHOOSE i \in breaks : \A j \in breaks : i <= j
    IN  [ k \in 1..output_count |->
            Interpolate(input, src_idx(k - 1), (phase + (k - 1) * rate) % TARGET_RATE) ]

\* a resampler that keeps the whole source position as its phase
resample_keeps_position(rate, phase, input, max_output_samples) ==
    IF rate = TARGET_RATE
    THEN [ out   |-> SubSeq(input, 1, Min(Len(input), max_output_samples)),
           phase |-> phase ]
    ELSE Only({ [ out   |-> o,
                  phase |-> phase + Len(o) * rate ]
                : o \in {ResampleLoop(rate, phase, input, max_output_samples)} })

\* resample_to_8khz (lines 284-316): the samples written and the new phase
resample_to_8khz(rate, phase, input, max_output_samples) ==
    IF rate = TARGET_RATE
    THEN [ out   |-> SubSeq(input, 1, Min(Len(input), max_output_samples)),
           phase |-> phase ]
    ELSE Only({ [ out   |-> o,
                  phase |-> (phase + Len(o) * rate) % TARGET_RATE ]
                : o \in {ResampleLoop(rate, phase, input, max_output_samples)} })

\* src_idx of every pass of the loop that stores an output (line 299)
SrcIndices(rate, phase, input, max_output_samples) ==
    IF rate = TARGET_RATE THEN {}
    ELSE { (phase + (k - 1) * rate) \div TARGET_RATE
           : k \in 1..Len(ResampleLoop(rate, phase, input, max_output_samples)) }

\* the indices of input that a call reads: those of the memcpy of line 290,
\* or input[src_idx] and, behind its test, input[src_idx + 1] (lines 305-306)
InputReads(rate, phase, input, max_output_samples) ==
    IF rate = TARGET_RATE
    THEN 0..(Min(Len(input), max_output_samples) - 1)
    ELSE Only({ ix \cup { i + 1 : i \in { j \in ix : j + 1 < Len(input) } }
                : ix \in {SrcIndices(rate, phase, input, max_output_samples)} })

\* -------------------------------------------------------------- read call
\* bytes of one source frame as the read path computes it (lines 528, 536)
FrameBytes(w) == w.original_channels * (w.original_bits_per_sample \div 8)

\* samples_to_read of lines 529-533
SamplesToRead(w, num_samples) ==
    Min((num_samples * w.resample_ratio) \div TARGET_RATE + 2, w.resample_buffer_size)

\* a read call that seeks back to where it started after it got samples
ReadCallSeeksBack(f, w, p, num_samples) ==
    Only({
        LET actual_samples_read == Len(r.bytes) \div FrameBytes(w)
        IN  IF actual_samples_read <= 0
            THEN [ret |-> 0, out |-> << >>, wav |-> w, fp |-> r.fp]
            ELSE Only({
                [ ret |-> Len(rs.out), out |-> rs.out,
                  wav |-> [w EXCEPT !.resample_phase = rs.phase,
                                    !.samples_read = @ + Len(rs.out)],
                  fp  |-> p ]
                : rs \in { resample_to_8khz(
                             w.original_sample_rate, w.resample_phase,
                             convert_to_16bit(r.bytes, actual_samples_read,
                                              w.original_bits_per_sample,
                                              w.original_channels),
                             num_samples) } })
        : r \in {fread(f, p, SamplesToRead(w, num_samples) * FrameBytes(w))} })

\* wav_enhanced_read_samples_16bit_mono_8khz (lines 525-559) on an open
\* stream whose frame size is not zero: return value, samples stored for the
\* caller, and the struct and the file state after the call
ReadCall(f, w, p, num_samples) ==
    Only({
        LET actual_samples_read == Len(r.bytes) \div FrameBytes(w)
        IN  IF actual_samples_read <= 0
            THEN [ret |-> 0, out |-> << >>, wav |-> w, fp |-> r.fp]
            ELSE Only({
                [ ret |-> Len(rs.out), out |-> rs.out,
                  wav |-> [w EXCEPT !.resample_phase = rs.phase,
                                    !.samples_read = @ + Len(rs.out)],
                  fp  |-> r.fp ]
                : rs \in { resample_to_8khz(
                             w.original_sample_rate, w.resample_phase,
                             convert_to_16bit(r.bytes, actual_samples_read,
                                              w.original_bits_per_sample,
                                              w.original_channels),
                             num_samples) } })
        : r \in {fread(f, p, SamplesToRead(w, num_samples) * FrameBytes(w))} })

\* wav_enhanced_get_total_samples_8khz_mono (lines 611-614), ratio not zero
wav_enhanced_get_total_samples_8khz_mono(w) ==
    (w.total_samples * TARGET_RATE) \div w.resample_ratio

\* ------------------------------------------------------- container writer
\* fwrite of bytes b at position pos of a file with bytes f: overwrites what
\* is there and extends the file
fwrite_at(f, pos, b) ==
    SubSeq(f, 1, pos) \o b \o SubSeq(f, pos + Len(b) + 1, Len(f))

\* fwrite(samples, sizeof(short), ...): the samples as little-endian shorts
SampleBytes(samples) ==
    [ k \in 1..(2 * Len(samples)) |->
        write_le16(samples[(k + 1) \div 2] % 65536)[2 - (k % 2)] ]

\* an open for write that declares a byte rate of one byte per sample
open_write_byte_rate(dummy) ==
    [ wav  |-> [ZeroWav EXCEPT !.target_sample_rate = TARGET_RATE,
                               !.target_channels = TARGET_CHANNELS,
                               !.target_bits_per_sample = TARGET_BITS],
      file |-> write_le32(FOURCC_RIFF) \o write_le32(36) \o write_le32(FOURCC_WAVE)
               \o write_le32(FOURCC_FMT) \o write_le32(FMT_FIXED_SIZE)
               \o write_le16(WAV_FORMAT_PCM) \o write_le16(TARGET_CHANNELS)
               \o write_le32(TARGET_RATE) \o write_le32(TARGET_RATE)
               \o write_le16(2) \o write_le16(TARGET_BITS)
               \o write_le32(FOURCC_DATA) \o write_le32(0),
      pos  |-> 44 ]

\* wav_enhanced_open_write (lines 486-523), malloc and fopen succeeding: the
\* struct, the bytes of the new file and the file position.  The argument is
\* the file name, which the model does not use.
wav_enhanced_open_write(filename) ==
    Only({ [ wav  |-> w,
             file |-> write_le32(FOURCC_RIFF) \o write_le32(36)
                      \o write_le32(FOURCC_WAVE)
                      \o write_le32(FOURCC_FMT) \o write_le32(16)
                      \o write_le16(WAV_FORMAT_PCM)
                      \o write_le16(w.target_channels)
                      \o write_le32(w.target_sample_rate)
                      \o write_le32((w.target_sample_rate * w.target_channels
                                     * w.target_bits_per_sample) \div 8)
                      \o write_le16((w.target_channels * w.target_bits_per_sample) \div 8)
                      \o write_le16(w.target_bits_per_sample)
                      \o write_le32(FOURCC_DATA) \o write_le32(0),
             pos  |-> 44 ]
           : w \in { [ZeroWav EXCEPT !.target_sample_rate = 8000,
                                     !.target_channels = 1,
                                     !.target_bits_per_sample = 16] } })

\* a write call that counts the samples it was asked to store
write_samples_counts_request(w, f, pos, samples, written) ==
    [ ret  |-> written,
      wav  |-> [w EXCEPT !.samples_written = @ + Len(samples),
                         !.bytes_written = @ + Len(samples) * 2],
      file |-> fwrite_at(f, pos, SampleBytes(SubSeq(samples, 1, written))),
      pos  |-> pos + 2 * written ]

\* wav_enhanced_write_samples (lines 561-569) when fwrite stores the first
\* `written` of the samples: the return value, the struct, the file
wav_enhanced_write_samples(w, f, pos, samples, written) ==
    [ ret  |-> written,
      wav  |-> [w EXCEPT !.samples_written = @ + written,
                         !.bytes_written = @ + written * 2],
      file |-> fwrite_at(f, pos, SampleBytes(SubSeq(samples, 1, written))),
      pos  |-> pos + 2 * written ]

\* a close that stores the sample count in the data size field
close_patch_samples(w, f) ==
    IF w.samples_written > 0
    THEN fwrite_at(fwrite_at(f, 4, write_le32(36 + w.bytes_written)),
                   40, write_le32(w.samples_written))
    ELSE f

\* the header update of wav_enhanced_close (lines 576-587): the bytes of the
\* file when it is closed
wav_enhanced_close(w, f) ==
    IF w.samples_written > 0
    THEN LET data_size == w.bytes_written
             file_size == 36 + data_size
         IN  fwrite_at(fwrite_at(f, 4, write_le32(file_size)), 40, write_le32(data_size))
    ELSE f

\* ---------------------------------------------------------------- state
VARIABLES
    container,   \* the description the input file was built from
    file,        \* the bytes of the input file
    pc,          \* "start", "opened", "reading", "failed", "crashed", "closed"
    ret,         \* what wav_enhanced_open_read returned: "none", "stream", "NULL"
    wav,         \* contents of the wav_enhanced_t
    fp,          \* stream state of wav->file: [pos, eof]
    fileOpen,    \* the FILE is open
    heap,        \* live heap objects
    undefined,   \* an operation with undefined behaviour was executed
    out,         \* all samples returned to the caller so far, in order
    last,        \* the last read call: request, return value, cursor and phase around it
    total_8khz,  \* the caller's total_samples_8khz (encoder main, line 117)
    conv,        \* one call of convert_to_16bit: its arguments and its output
    rs,          \* one call of resample_to_8khz: its arguments, its output, its reads
    wpc,         \* the write stream: "none", "open", "closed"
    wout,        \* contents of the wav_enhanced_t of the write stream
    outfile,     \* the bytes of the output file
    outpos,      \* file position of the write stream
    wlast,       \* the last write call: samples asked for and return value
    appended,    \* the samples stored in the output file so far, in order
    res,         \* what the tool holds besides wav_in: heap objects and open files
    codec,       \* the codec2 instance: mode, samples and bits per frame
    c2file,      \* the bytes of the compressed file
    epc,         \* the encoder's main: "none", "encoding", "done", "failed"
    enc,         \* its locals: estimated_frames, frames_encoded, total_samples_processed
    speech,      \* every frame given to codec2_encode, with the samples_read of its read
    exit_code,   \* what main returned, -1 while it runs
    dpc,         \* the decoder's main: "idle", "start", "decoding", "done", "failed"
    c2pos,       \* stream state of the decoder's input: [pos, eof]
    dec,         \* its locals: total_frames, frames_decoded, samples_decoded
    decoded,     \* every bit-frame given to codec2_decode, in order
    dec_exit     \* what the decoder's main returned, -1 while it runs

\* the write stream and its file
writeVars == << wpc, wout, outfile, outpos, wlast, appended, res >>

\* the codec and the encoder's main
encVars == << codec, c2file, epc, enc, speech, exit_code >>

\* the decoder's main
decVars == << dpc, c2pos, dec, decoded, dec_exit >>

\* the single calls of the sample decoder and of the resampler
callVars == << conv, rs >>

\* the state outside the read stream
toolVars == << callVars, writeVars, encVars, decVars >>

\* the input file and the read stream on it
streamVars == << container, file, pc, ret, wav, fp, fileOpen, heap, undefined, out, last,
                 total_8khz >>

vars == << streamVars, toolVars >>

\* n = 0: no read call was made yet
NoCall == [n |-> 0, ret |-> 0, pos0 |-> 0, pos1 |-> 0, phase0 |-> 0]

InitStream ==
    /\ pc = "start"
    /\ ret = "none"
    /\ wav = ZeroWav
    /\ fp = [pos |-> 0, eof |-> FALSE]
    /\ fileOpen = FALSE
    /\ heap = {}
    /\ undefined = FALSE
    /\ out = << >>
    /\ last = NoCall
    /\ total_8khz = 0

\* no call of convert_to_16bit
NoConv == [ bits |-> 0, channels |-> 0, vals |-> << >>, raw |-> << >>,
            done |-> FALSE, output |-> << >> ]

\* no call of resample_to_8khz
NoResample == [ rate |-> 0, phase |-> 0, input |-> << >>, max |-> 0,
                done |-> FALSE, output |-> << >>, phase1 |-> 0, idx |-> {},
                reads |-> {} ]

\* no single call
InitCalls == conv = NoConv /\ rs = NoResample

\* n = -1: no write call was made yet; short: some write call stored fewer
\* samples than it was asked to
NoWrite == [n |-> -1, ret |-> 0, short |-> FALSE]

\* no write stream
InitWriter ==
    /\ wpc = "none"
    /\ wout = ZeroWav
    /\ outfile = << >>
    /\ outpos = 0
    /\ wlast = NoWrite
    /\ appended = << >>
    /\ res = {}

NoCodec == [mode |-> 0, samples_per_frame |-> 0, bits_per_frame |-> 0]

\* no encoder run
InitEncoder ==
    /\ codec = NoCodec
    /\ c2file = << >>
    /\ epc = "none"
    /\ enc = [estimated_frames |-> 0, frames_encoded |-> 0, total_samples_processed |-> 0]
    /\ speech = << >>
    /\ exit_code = -1

\* no decoder run
InitDecoder ==
    /\ dpc = "idle"
    /\ c2pos = [pos |-> 0, eof |-> FALSE]
    /\ dec = [total_frames |-> 0, frames_decoded |-> 0, samples_decoded |-> 0]
    /\ decoded = << >>
    /\ dec_exit = -1

\* nothing outside the read stream has happened
InitTools == InitCalls /\ InitWriter /\ InitEncoder /\ InitDecoder

\* ------------------------------------------------- scanned containers
ScanChunkChoices ==
    { UnknownChunk(FOURCC_LIST, 0), UnknownChunk(FOURCC_LIST, MaxSkip),
      FmtChunk(WAV_FORMAT_PCM, 1, 8000, 16, 0),
      FmtChunk(WAV_FORMAT_PCM, 2, 12000, 16, 2),
      DataChunk(<< 1, 0, 2, 0 >>) }

ChunkLists == UNION { [1..n -> ScanChunkChoices] : n \in 0..MaxChunks }

\* Truncations: any cut inside the last chunk (a cut further up is a cut
\* inside the last chunk of a shorter list), any cut of the 12-byte header.
Cuts(chunks) ==
    LET full == Len(FullBytes(FOURCC_RIFF, FOURCC_WAVE, chunks))
        lastLen == IF chunks = << >> THEN 12 ELSE 8 + Len(chunks[Len(chunks)].body)
    IN  (full - lastLen) .. full

\* a group magic and a form identifier that are wrong
BAD_MAGIC == FOURCC_RIFF + 1
BAD_FORM  == FOURCC_WAVE - 1

\* the scanned containers: a good header with every truncation, and every
\* combination of a wrong magic and a wrong form on the whole file
IsScanContainer(c) ==
    \E cs \in ChunkLists :
        \/ \E k \in Cuts(cs) \cup (IF cs = << >> THEN 0..11 ELSE {}) :
              c = [magic |-> FOURCC_RIFF, form |-> FOURCC_WAVE, chunks |-> cs, keep |-> k]
        \/ \E m \in {FOURCC_RIFF, BAD_MAGIC}, w \in {FOURCC_WAVE, BAD_FORM} :
              /\ m # FOURCC_RIFF \/ w # FOURCC_WAVE
              /\ c = [magic |-> m, form |-> w, chunks |-> cs,
                      keep |-> Len(FullBytes(m, w, cs))]

InitScan ==
    /\ IsScanContainer(container)
    /\ file = Serialize(container)
    /\ InitStream
    /\ InitTools

\* ---------------------------------------------------------------- actions
\* wav_enhanced_open_read, every divisor non-zero
OpenRead ==
    /\ pc = "start"
    /\ \E r \in {wav_enhanced_open_read(file)} :
           /\ ~r.divzero
           /\ ret' = r.ret
           /\ wav' = r.wav
           /\ fp' = r.fp
           /\ fileOpen' = r.fileOpen
           /\ heap' = r.heap
           /\ pc' = IF r.ret = "stream" THEN "opened" ELSE "failed"
    /\ UNCHANGED << toolVars, container, file, undefined, out, last, total_8khz >>

\* The quotients a build can give for chunk_size / 0 when it does not trap
DivZeroQuotients == {0, 2147483647}

\* wav_enhanced_open_read when line 448 divides by zero: the build traps
\* (SIGFPE ends the process inside the call) ...
OpenReadTrap ==
    /\ pc = "start"
    /\ \E r \in {wav_enhanced_open_read(file)} :
           /\ r.divzero
           /\ pc' = "crashed"
           /\ undefined' = TRUE
           /\ fp' = r.fp
           /\ fileOpen' = TRUE
           /\ heap' = {"wav"}
    /\ UNCHANGED << toolVars, container, file, ret, wav, out, last, total_8khz >>

\* ... or the division yields some quotient and the call goes on
OpenReadDivZero ==
    /\ pc = "start"
    /\ \E r \in {wav_enhanced_open_read(file)} :
           /\ r.divzero
           /\ \E q \in DivZeroQuotients :
                wav' = IF r.ret = "stream" THEN [r.wav EXCEPT !.total_samples = q]
                       ELSE r.wav
           /\ undefined' = TRUE
           /\ ret' = r.ret
           /\ fp' = r.fp
           /\ fileOpen' = r.fileOpen
           /\ heap' = r.heap
           /\ pc' = IF r.ret = "stream" THEN "opened" ELSE "failed"
    /\ UNCHANGED << toolVars, container, file, out, last, total_8khz >>

\* wav_enhanced_close of a read stream (lines 571-597)
Close ==
    /\ pc \in {"opened", "reading"}
    /\ fileOpen' = FALSE
    /\ heap' = {}
    /\ pc' = "closed"
    /\ UNCHANGED << toolVars, container, file, ret, wav, fp, undefined, out, last, total_8khz >>

\* line 117 of the encoder: total_samples / resample_ratio as doubles, cast
\* to uint32_t; the ratio is not zero
GetTotal ==
    /\ pc = "opened"
    /\ wav.resample_ratio # 0
    /\ total_8khz' = wav_enhanced_get_total_samples_8khz_mono(wav)
    /\ pc' = "reading"
    /\ UNCHANGED << toolVars, container, file, ret, wav, fp, fileOpen, heap, undefined, out, last >>

\* The values a build can give for (uint32_t)(x / 0.0)
UndefinedCasts == {0, 2147483647}

\* the same call when the ratio is 0.0: the quotient is inf or nan, and its
\* conversion to uint32_t is undefined
GetTotalUndefined ==
    /\ pc = "opened"
    /\ wav.resample_ratio = 0
    /\ \E v \in UndefinedCasts : total_8khz' = v
    /\ undefined' = TRUE
    /\ pc' = "reading"
    /\ UNCHANGED << toolVars, container, file, ret, wav, fp, fileOpen, heap, out, last >>

\* one call of wav_enhanced_read_samples_16bit_mono_8khz asking for n samples
Read ==
    /\ pc = "reading"
    /\ FrameBytes(wav) > 0
    /\ \E n \in 1..MaxReq :
         \E r \in {ReadCall(file, wav, fp, n)} :
           /\ wav' = r.wav
           /\ fp' = r.fp
           /\ out' = out \o r.out
           /\ last' = [ n |-> n, ret |-> r.ret, pos0 |-> fp.pos, pos1 |-> r.fp.pos,
                        phase0 |-> wav.resample_phase ]
    /\ UNCHANGED << toolVars, container, file, pc, ret, fileOpen, heap, undefined, total_8khz >>

NextScan == OpenRead \/ OpenReadTrap \/ OpenReadDivZero \/ Close

SpecScan == InitScan /\ [][NextScan]_vars

\* --------------------------------------------------- containers that are read
Rates == {0, 4000, 8000, 12000, 16000}

\* <<channels, bits per sample>>
Formats == { <<1, 16>>, <<2, 16>>, <<1, 8>>, <<1, 12>> }

SampleVals == {-32768, -3, 1000}

\* the frames a payload is made of: one value per channel
FrameVals(channels) ==
    IF channels = 1 THEN { <<v>> : v \in SampleVals }
    ELSE { <<100, 300>>, <<100, -101>>, <<-32768, 32767>> }

\* a 16-bit-range value stored with bits \div 8 bytes per sample
EncodeSample(v, bits) ==
    CASE bits \div 8 = 1 -> << (v \div 256) + 128 >>
      [] bits \div 8 = 2 -> write_le16(v % 65536)
      [] bits \div 8 = 3 -> << 255 >> \o write_le16(v % 65536)
      [] bits \div 8 = 4 -> << 255, 255 >> \o write_le16(v % 65536)

RECURSIVE EncodeFrames(_, _)
EncodeFrames(frames, bits) ==
    IF frames = << >> THEN << >>
    ELSE LET fr == Head(frames)
         IN  (IF Len(fr) = 1 THEN EncodeSample(fr[1], bits)
              ELSE EncodeSample(fr[1], bits) \o EncodeSample(fr[2], bits))
             \o EncodeFrames(Tail(frames), bits)

Payloads(channels) == UNION { [1..n -> FrameVals(channels)] : n \in 0..MaxFrames }

\* a mono or stereo PCM container: one format chunk, one data chunk, whole
IsReadContainer(c) ==
    \E rate \in Rates, fm \in Formats :
        \E frames \in Payloads(fm[1]) :
            c = [ magic |-> FOURCC_RIFF, form |-> FOURCC_WAVE,
                  rate |-> rate, channels |-> fm[1], bits |-> fm[2], frames |-> frames,
                  chunks |-> << FmtChunk(WAV_FORMAT_PCM, fm[1], rate, fm[2], 0),
                                DataChunk(EncodeFrames(frames, fm[2])) >>,
                  keep |-> 12 + 24 + 8 + Len(frames) * fm[1] * (fm[2] \div 8) ]

Init ==
    /\ IsReadContainer(container)
    /\ file = Serialize(container)
    /\ InitStream
    /\ InitTools

Next == OpenRead \/ GetTotal \/ GetTotalUndefined \/ Read \/ Close

Spec == Init /\ [][Next]_vars

\* ------------------------------- containers with a chunk after the data chunk
TrailRates == {4000, TARGET_RATE}

\* <<channels, bits per sample>>
TrailFormats == { <<1, 16>>, <<1, 8>> }

\* what follows the data chunk: nothing, or an unknown chunk of MaxSkip bytes
Trailers == { << >>, << UnknownChunk(FOURCC_LIST, MaxSkip) >> }

\* a whole PCM container: a format chunk, the data chunk, a trailer
IsTrailContainer(c) ==
    \E rate \in TrailRates, fm \in TrailFormats, trailer \in Trailers :
        \E frames \in Payloads(fm[1]) :
            c = [ magic |-> FOURCC_RIFF, form |-> FOURCC_WAVE,
                  rate |-> rate, channels |-> fm[1], bits |-> fm[2], frames |-> frames,
                  chunks |-> << FmtChunk(WAV_FORMAT_PCM, fm[1], rate, fm[2], 0),
                                DataChunk(EncodeFrames(frames, fm[2])) >> \o trailer,
                  keep |-> 12 + 24 + 8 + Len(frames) * fm[1] * (fm[2] \div 8)
                           + Len(ChunkBytes(trailer)) ]

InitTrail ==
    /\ IsTrailContainer(container)
    /\ file = Serialize(container)
    /\ InitStream
    /\ InitTools

NextTrail == OpenRead \/ GetTotal \/ Read \/ Close

SpecTrail == InitTrail /\ [][NextTrail]_vars

\* ------------------------------------------- blocks given to the sample decoder
\* the 16-bit-range values a channel sample takes in a block
ChanVals == {-32768, -101, 100, 300, 32767}

\* the bytes of the 8-bit blocks with more than one channel
Bytes8 == {0, 127, 128, 255}

\* what the low-order bytes of a 24-bit or 32-bit sample hold
Fills == {0, 255}

\* a 16-bit-range value v as one stored sample of the given depth; the
\* low-order bytes of the deeper formats hold fill
RawSample(v, bits, fill) ==
    CASE bits = 8  -> << (v \div 256) + 128 >>
      [] bits = 16 -> write_le16(v % 65536)
      [] bits = 24 -> << fill >> \o write_le16(v % 65536)
      [] bits = 32 -> << fill, fill >> \o write_le16(v % 65536)

RECURSIVE RawFrame(_, _, _)
RawFrame(fr, bits, fill) ==
    IF fr = << >> THEN << >>
    ELSE RawSample(Head(fr), bits, fill) \o RawFrame(Tail(fr), bits, fill)

RECURSIVE RawBlock(_, _, _)
RawBlock(frames, bits, fill) ==
    IF frames = << >> THEN << >>
    ELSE RawFrame(Head(frames), bits, fill) \o RawBlock(Tail(frames), bits, fill)

\* the frames of the blocks: two frames for mono and stereo, one frame above
BlockFrames(channels, values) ==
    UNION { [1..n -> [1..channels -> values]]
            : n \in 1..(IF channels <= 2 THEN 2 ELSE 1) }

\* a block of every supported depth and 1..MaxChannels channels; for 8-bit
\* mono every byte value; for 24-bit mono every value of the high byte, with
\* low and middle bytes at their ends and in the middle
IsConvInput(c) ==
    \/ \E b \in 0..255 :
          c = [NoConv EXCEPT !.bits = 8, !.channels = 1,
                             !.vals = << << (b - 128) * 256 >> >>, !.raw = << b >>]
    \/ \E lo \in Fills, mid \in Bytes8, hi \in 0..255 :
          c = [NoConv EXCEPT !.bits = 24, !.channels = 1,
                             !.vals = << << Signed16(mid, hi) >> >>,
                             !.raw = << lo, mid, hi >>]
    \/ \E channels \in 1..MaxChannels :
          \E frames \in BlockFrames(channels, { (b - 128) * 256 : b \in Bytes8 }) :
             c = [NoConv EXCEPT !.bits = 8, !.channels = channels, !.vals = frames,
                                !.raw = RawBlock(frames, 8, 0)]
    \/ \E bits \in {16, 24, 32}, channels \in 1..MaxChannels, fill \in Fills :
          \E frames \in BlockFrames(channels, ChanVals) :
             c = [NoConv EXCEPT !.bits = bits, !.channels = channels, !.vals = frames,
                                !.raw = RawBlock(frames, bits, fill)]

NoContainer == [magic |-> 0, form |-> 0, chunks |-> << >>, keep |-> 0]

InitConvert ==
    /\ IsConvInput(conv)
    /\ rs = NoResample
    /\ container = NoContainer
    /\ file = << >>
    /\ InitStream
    /\ InitWriter
    /\ InitEncoder
    /\ InitDecoder

\* the call of line 547: convert_to_16bit on a block of whole frames
Convert ==
    /\ ~conv.done
    /\ conv.bits # 0
    /\ conv' = [conv EXCEPT !.done = TRUE,
                            !.output = convert_to_16bit(conv.raw, Len(conv.vals),
                                                        conv.bits, conv.channels)]
    /\ UNCHANGED << streamVars, rs, writeVars, encVars, decVars >>

NextConvert == Convert

SpecConvert == InitConvert /\ [][NextConvert]_vars

\* ------------------------------------------- single calls of the resampler
\* the source rates of the calls: the ratios 0, 1/64, 1/4, 3/4, 1, 3/2, 5/2
ResRates == {0, 125, 2000, 6000, TARGET_RATE, 12000, 20000}

\* the samples of the inputs
ResVals == {-32768, -3, 1000, 32767}

\* a call with the phase that 0..MaxPrior outputs at its rate leave, an input
\* of 0..MaxInput samples and room for 0..MaxReq outputs
IsResampleCall(c) ==
    \E rate \in ResRates, prior \in 0..MaxPrior, n \in 0..MaxInput, max \in 0..MaxReq :
        \E input \in [1..n -> ResVals] :
            c = [NoResample EXCEPT !.rate = rate,
                                   !.phase = (prior * rate) % TARGET_RATE,
                                   !.input = input, !.max = max]

InitResample ==
    /\ IsResampleCall(rs)
    /\ conv = NoConv
    /\ container = NoContainer
    /\ file = << >>
    /\ InitStream
    /\ InitWriter
    /\ InitEncoder
    /\ InitDecoder

\* one call of resample_to_8khz (lines 284-316)
Resample ==
    /\ ~rs.done
    /\ rs # NoResample
    /\ \E r \in {resample_to_8khz(rs.rate, rs.phase, rs.input, rs.max)} :
          rs' = [rs EXCEPT !.done = TRUE, !.output = r.out, !.phase1 = r.phase,
                           !.idx = SrcIndices(rs.rate, rs.phase, rs.input, rs.max),
                           !.reads = InputReads(rs.rate, rs.phase, rs.input, rs.max)]
    /\ UNCHANGED << streamVars, conv, writeVars, encVars, decVars >>

NextResample == Resample

SpecResample == InitResample /\ [][NextResample]_vars

\* ------------------------------------------------- writing a container
\* the sample values given to write calls
WriteVals == {-2, 0, 257}

WriteBlocks == UNION { [1..n -> WriteVals] : n \in 0..MaxWrite }

InitWrite ==
    /\ container = NoContainer
    /\ file = << >>
    /\ InitStream
    /\ InitTools

\* wav_enhanced_open_write
OpenWrite ==
    /\ wpc = "none"
    /\ \E r \in {wav_enhanced_open_write("out.wav")} :
          /\ wout' = r.wav
          /\ outfile' = r.file
          /\ outpos' = r.pos
    /\ wpc' = "open"
    /\ res' = res \cup {"wav_out", "wav_out->file"}
    /\ UNCHANGED << streamVars, callVars, encVars, decVars, wlast, appended >>

\* one call of wav_enhanced_write_samples with a block of samples; fwrite
\* stores all of them, or fewer when the device fails
WriteSamples ==
    /\ wpc = "open"
    /\ \E samples \in WriteBlocks :
         \E written \in 0..Len(samples) :
           /\ Len(appended) + written <= MaxOut
           /\ \E r \in {wav_enhanced_write_samples(wout, outfile, outpos, samples, written)} :
                /\ wout' = r.wav
                /\ outfile' = r.file
                /\ outpos' = r.pos
                /\ wlast' = [n |-> Len(samples), ret |-> r.ret,
                             short |-> wlast.short \/ r.ret < Len(samples)]
           /\ appended' = appended \o SubSeq(samples, 1, written)
    /\ UNCHANGED << streamVars, callVars, encVars, decVars, wpc, res >>

\* wav_enhanced_close of the write stream (lines 571-597)
CloseWrite ==
    /\ wpc = "open"
    /\ outfile' = wav_enhanced_close(wout, outfile)
    /\ wpc' = "closed"
    /\ res' = res \ {"wav_out", "wav_out->file"}
    /\ UNCHANGED << streamVars, callVars, encVars, decVars, wout, outpos, wlast, appended >>

\* the closed output file is opened for read: wav_enhanced_open_read on it
Reopen ==
    /\ wpc = "closed"
    /\ pc = "start"
    /\ file' = outfile
    /\ \E r \in {wav_enhanced_open_read(outfile)} :
           /\ ~r.divzero
           /\ ret' = r.ret
           /\ wav' = r.wav
           /\ fp' = r.fp
           /\ fileOpen' = r.fileOpen
           /\ heap' = r.heap
           /\ pc' = IF r.ret = "stream" THEN "opened" ELSE "failed"
    /\ UNCHANGED << toolVars, container, undefined, out, last, total_8khz >>

NextWrite == OpenWrite \/ WriteSamples \/ CloseWrite \/ Reopen \/ GetTotal \/ Close

SpecWrite == InitWrite /\ [][NextWrite]_vars

\* ------------------------------------------------------------- the encoder
C2_MAGIC == 1127367474       \* 0x43324332

\* the codecs of the model: a mode is its samples and bits per frame
Geometries ==
    { [mode |-> 0, samples_per_frame |-> 2, bits_per_frame |-> 12],
      [mode |-> 1, samples_per_frame |-> 3, bits_per_frame |-> 8],
      [mode |-> 2, samples_per_frame |-> 320, bits_per_frame |-> 52] }

\* codec2_create: the codec of a mode, NoCodec (NULL) for a mode it has not
codec2_create(mode) ==
    IF \E g \in Geometries : g.mode = mode
    THEN CHOOSE g \in Geometries : g.mode = mode
    ELSE NoCodec

\* (bits_per_frame + 7) / 8 of line 144
BytesPerFrame(c) == (c.bits_per_frame + 7) \div 8

\* what codec2_encode can store in codec2_bits: one byte value throughout
CodecBits(c) == { [j \in 1..BytesPerFrame(c) |-> b] : b \in {0, 85} }

\* the header of lines 164-169: four 32-bit words in host order
C2Header(c) ==
    write_le32(C2_MAGIC) \o write_le32(c.mode) \o write_le32(c.samples_per_frame)
        \o write_le32(c.bits_per_frame)

\* speech_samples after the read stored `got` and lines 194-199 zeroed the rest
PadFrame(got, samples_per_frame) ==
    got \o [j \in 1..(samples_per_frame - Len(got)) |-> 0]

\* the source rates of the containers that are encoded
EncRates == {4000, 8000, 12000, 16000}

\* <<channels, bits per sample>> of the containers that are encoded
EncFormats == { <<1, 16>>, <<2, 16>>, <<1, 8>> }

\* frame i of an encoded container holds 256 * i in every channel
RampFrames(channels, n) == [i \in 1..n |-> [ch \in 1..channels |-> 256 * i]]

\* the containers given to the encoder: rate, format and 0..MaxSamples frames
IsEncContainer(c) ==
    \E rate \in EncRates, fm \in EncFormats, n \in 0..MaxSamples :
        c = [ magic |-> FOURCC_RIFF, form |-> FOURCC_WAVE,
              rate |-> rate, channels |-> fm[1], bits |-> fm[2],
              frames |-> RampFrames(fm[1], n),
              chunks |-> << FmtChunk(WAV_FORMAT_PCM, fm[1], rate, fm[2], 0),
                            DataChunk(EncodeFrames(RampFrames(fm[1], n), fm[2])) >>,
              keep |-> 12 + 24 + 8 + n * fm[1] * (fm[2] \div 8) ]

\* a 192000 Hz mono 8-bit container of two frames more than the resample
\* buffer holds (the ratio 24 is exact in a double)
HighRateContainer ==
    [ magic |-> FOURCC_RIFF, form |-> FOURCC_WAVE,
      rate |-> 24 * TARGET_RATE, channels |-> 1, bits |-> 8,
      frames |-> [i \in 1..(RESAMPLE_BUFFER_SIZE + 2) |-> << 256 * (i % 100) >>],
      chunks |-> << FmtChunk(WAV_FORMAT_PCM, 1, 24 * TARGET_RATE, 8, 0),
                    DataChunk([i \in 1..(RESAMPLE_BUFFER_SIZE + 2) |-> 128 + (i % 100)]) >>,
      keep |-> 12 + 24 + 8 + RESAMPLE_BUFFER_SIZE + 2 ]

\* a file that is not a container
NotAContainer ==
    [ magic |-> BAD_MAGIC, form |-> FOURCC_WAVE, rate |-> 8000, channels |-> 1,
      bits |-> 16, frames |-> << >>, chunks |-> << >>, keep |-> 12 ]

InitEncode ==
    /\ \/ IsEncContainer(container) /\ codec \in Geometries
       \/ container = NotAContainer /\ codec \in Geometries
       \/ container = HighRateContainer /\ codec = codec2_create(2)
    /\ file = Serialize(container)
    /\ InitStream
    /\ InitCalls
    /\ InitWriter
    /\ c2file = << >>
    /\ epc = "none"
    /\ enc = [estimated_frames |-> 0, frames_encoded |-> 0, total_samples_processed |-> 0]
    /\ speech = << >>
    /\ exit_code = -1
    /\ InitDecoder

\* lines 106-110: the input could not be opened, main returns 1
EncOpenFailed ==
    /\ pc = "failed"
    /\ epc = "none"
    /\ epc' = "failed"
    /\ exit_code' = 1
    /\ UNCHANGED << streamVars, callVars, writeVars, decVars, codec, c2file, enc, speech >>

\* lines 135-181: codec2_create, the estimate, fopen of the output, the
\* header, the two buffers (all succeed)
EncSetup ==
    /\ pc = "reading"
    /\ epc = "none"
    /\ enc' = [enc EXCEPT !.estimated_frames =
                  (total_8khz + codec.samples_per_frame - 1) \div codec.samples_per_frame]
    /\ c2file' = C2Header(codec)
    /\ res' = {"codec2", "output", "speech_samples", "codec2_bits"}
    /\ epc' = "encoding"
    /\ UNCHANGED << streamVars, callVars, wpc, wout, outfile, outpos, wlast, appended,
                    codec, speech, exit_code, decVars >>

\* one pass of the loop of lines 192-217: the read returned samples; the
\* frame is padded, encoded and written
EncFrame ==
    /\ epc = "encoding"
    /\ FrameBytes(wav) > 0
    /\ \E r \in {ReadCall(file, wav, fp, codec.samples_per_frame)} :
         /\ r.ret > 0
         /\ wav' = r.wav
         /\ fp' = r.fp
         /\ out' = out \o r.out
         /\ last' = [ n |-> codec.samples_per_frame, ret |-> r.ret, pos0 |-> fp.pos,
                      pos1 |-> r.fp.pos, phase0 |-> wav.resample_phase ]
         /\ speech' = Append(speech, [ samples |-> PadFrame(r.out, codec.samples_per_frame),
                                       samples_read |-> r.ret ])
         /\ \E bits \in CodecBits(codec) : c2file' = c2file \o bits
         /\ enc' = [enc EXCEPT !.frames_encoded = @ + 1,
                               !.total_samples_processed = @ + r.ret]
    /\ UNCHANGED << container, file, pc, ret, fileOpen, heap, undefined, total_8khz,
                    callVars, writeVars, codec, epc, exit_code, decVars >>

\* the read returned 0: the loop ends, lines 231-238 release everything and
\* main returns 0
EncFinish ==
    /\ epc = "encoding"
    /\ FrameBytes(wav) > 0
    /\ \E r \in {ReadCall(file, wav, fp, codec.samples_per_frame)} :
         /\ r.ret <= 0
         /\ wav' = r.wav
         /\ fp' = r.fp
         /\ last' = [ n |-> codec.samples_per_frame, ret |-> r.ret, pos0 |-> fp.pos,
                      pos1 |-> r.fp.pos, phase0 |-> wav.resample_phase ]
    /\ res' = {}
    /\ heap' = {}
    /\ fileOpen' = FALSE
    /\ pc' = "closed"
    /\ epc' = "done"
    /\ exit_code' = 0
    /\ dpc' = "start"
    /\ UNCHANGED << container, file, ret, undefined, out, total_8khz,
                    callVars, wpc, wout, outfile, outpos, wlast, appended,
                    codec, c2file, enc, speech, c2pos, dec, decoded, dec_exit >>

\* ------------------------------------------------------------- the decoder
\* header[k] of lines 227-228: the k-th 32-bit word of the 16 bytes read
HeaderWord(b, k) ==
    b[4 * k + 1] + 256 * b[4 * k + 2] + 65536 * b[4 * k + 3] + 16777216 * b[4 * k + 4]

\* what codec2_decode can store in speech_samples: one value throughout
DecodedFrames(c) == { [j \in 1..c.samples_per_frame |-> v] : v \in {-2, 257} }

\* what fwrite can return when it does not store all n samples of a frame
ShortCounts(n) == {0, n - 1}

\* a frame count that rounds the data size up to whole frames
FrameCountCeil(data_bytes, bytes_per_frame) ==
    (data_bytes + bytes_per_frame - 1) \div bytes_per_frame

\* total_frames of line 286
FrameCount(data_bytes, bytes_per_frame) == data_bytes \div bytes_per_frame

\* an open that takes the frame geometry from the codec and does not compare
\* it with the header
DecodeOpenUnvalidated(f) ==
    Only({
        IF Len(h.bytes) < 16
        THEN [ok |-> FALSE, why |-> "header", codec |-> NoCodec, total_frames |-> 0,
              fp |-> h.fp]
        ELSE Only({
            IF c = NoCodec
            THEN [ok |-> FALSE, why |-> "mode", codec |-> NoCodec, total_frames |-> 0,
                  fp |-> h.fp]
            ELSE IF FrameCount(Len(f) - h.fp.pos, BytesPerFrame(c)) = 0
            THEN [ok |-> FALSE, why |-> "empty", codec |-> c, total_frames |-> 0,
                  fp |-> h.fp]
            ELSE [ok |-> TRUE, why |-> "", codec |-> c,
                  total_frames |-> FrameCount(Len(f) - h.fp.pos, BytesPerFrame(c)),
                  fp |-> h.fp]
            : c \in {codec2_create(HeaderWord(h.bytes, 1))} })
        : h \in {fread(f, [pos |-> 0, eof |-> FALSE], 16)} })

\* lines 219-302 of the decoder's main on the input bytes f: the header is
\* read and validated, the codec created, the frames counted
DecodeOpen(f) ==
    Only({
        IF Len(h.bytes) < 16
        THEN [ok |-> FALSE, why |-> "header", codec |-> NoCodec, total_frames |-> 0,
              fp |-> h.fp]
        ELSE IF HeaderWord(h.bytes, 0) # C2_MAGIC
        THEN [ok |-> FALSE, why |-> "magic", codec |-> NoCodec, total_frames |-> 0,
              fp |-> h.fp]
        ELSE Only({
            IF c = NoCodec
            THEN [ok |-> FALSE, why |-> "mode", codec |-> NoCodec, total_frames |-> 0,
                  fp |-> h.fp]
            ELSE IF \/ c.samples_per_frame # HeaderWord(h.bytes, 2)
                    \/ c.bits_per_frame # HeaderWord(h.bytes, 3)
            THEN [ok |-> FALSE, why |-> "geometry", codec |-> c, total_frames |-> 0,
                  fp |-> h.fp]
            ELSE IF FrameCount(Len(f) - h.fp.pos, BytesPerFrame(c)) = 0
            THEN [ok |-> FALSE, why |-> "empty", codec |-> c, total_frames |-> 0,
                  fp |-> h.fp]
            ELSE [ok |-> TRUE, why |-> "", codec |-> c,
                  total_frames |-> FrameCount(Len(f) - h.fp.pos, BytesPerFrame(c)),
                  fp |-> h.fp]
            : c \in {codec2_create(HeaderWord(h.bytes, 1))} })
        : h \in {fread(f, [pos |-> 0, eof |-> FALSE], 16)} })

\* the compressed files given to the decoder: a whole header and 0..MaxC2Bytes
\* bytes after it (byte i holds i), a header that is cut, a wrong magic, a
\* mode the library has not, a frame geometry that is not the mode's (one
\* sample more per frame, or one byte more)
IsDecInput(f) ==
    \E g \in Geometries :
        \/ \E n \in 0..MaxC2Bytes : f = C2Header(g) \o [i \in 1..n |-> i]
        \/ \E k \in {0, 15} : f = SubSeq(C2Header(g), 1, k)
        \/ \E n \in 0..MaxC2Bytes :
              \/ f = write_le32(C2_MAGIC + 1) \o SubSeq(C2Header(g), 5, 16)
                     \o [i \in 1..n |-> i]
              \/ f = C2Header([g EXCEPT !.mode = 7]) \o [i \in 1..n |-> i]
              \/ f = C2Header([g EXCEPT !.samples_per_frame = @ + 1]) \o [i \in 1..n |-> i]
              \/ f = C2Header([g EXCEPT !.bits_per_frame = @ + 8]) \o [i \in 1..n |-> i]

InitDecode ==
    /\ container = NoContainer
    /\ file = << >>
    /\ InitStream
    /\ InitCalls
    /\ InitWriter
    /\ codec = NoCodec
    /\ IsDecInput(c2file)
    /\ epc = "none"
    /\ enc = [estimated_frames |-> 0, frames_encoded |-> 0, total_samples_processed |-> 0]
    /\ speech = << >>
    /\ exit_code = -1
    /\ dpc = "start"
    /\ c2pos = [pos |-> 0, eof |-> FALSE]
    /\ dec = [total_frames |-> 0, frames_decoded |-> 0, samples_decoded |-> 0]
    /\ decoded = << >>
    /\ dec_exit = -1

\* lines 219-302 end in an error: what was acquired is released and main
\* returns 1
DecReject ==
    /\ dpc = "start"
    /\ \E r \in {DecodeOpen(c2file)} :
         /\ ~r.ok
         /\ c2pos' = r.fp
         /\ codec' = r.codec
    /\ dpc' = "failed"
    /\ dec_exit' = 1
    /\ UNCHANGED << streamVars, callVars, writeVars, c2file, epc, enc, speech, exit_code,
                    dec, decoded >>

\* lines 219-323 succeed: header, codec, frame count, wav_enhanced_open_write
\* of the output, the two buffers
DecStart ==
    /\ dpc = "start"
    /\ \E r \in {DecodeOpen(c2file)} :
         /\ r.ok
         /\ c2pos' = r.fp
         /\ codec' = r.codec
         /\ dec' = [dec EXCEPT !.total_frames = r.total_frames]
    /\ \E w \in {wav_enhanced_open_write("out.wav")} :
          /\ wout' = w.wav
          /\ outfile' = w.file
          /\ outpos' = w.pos
    /\ wpc' = "open"
    /\ res' = {"input", "codec2", "wav_out", "wav_out->file", "codec2_bits",
               "speech_samples"}
    /\ dpc' = "decoding"
    /\ UNCHANGED << streamVars, callVars, wlast, appended, c2file, epc, enc, speech,
                    exit_code, decoded, dec_exit >>

\* one pass of the loop of lines 333-353: fread gave a whole frame; it is
\* decoded and the samples are written (fwrite stores all of them, or fewer
\* when the device fails)
DecFrame ==
    /\ dpc = "decoding"
    /\ \E r \in {fread(c2file, c2pos, BytesPerFrame(codec))} :
         /\ Len(r.bytes) = BytesPerFrame(codec)
         /\ c2pos' = r.fp
         /\ decoded' = Append(decoded, r.bytes)
         /\ \E samples \in DecodedFrames(codec) :
              \E written \in {codec.samples_per_frame} \cup ShortCounts(codec.samples_per_frame) :
                 /\ \E w \in {wav_enhanced_write_samples(wout, outfile, outpos,
                                                         samples, written)} :
                       /\ wout' = w.wav
                       /\ outfile' = w.file
                       /\ outpos' = w.pos
                       /\ wlast' = [n |-> codec.samples_per_frame, ret |-> w.ret,
                                    short |-> wlast.short \/ w.ret < codec.samples_per_frame]
                 /\ appended' = appended \o SubSeq(samples, 1, written)
    /\ dec' = [dec EXCEPT !.frames_decoded = @ + 1,
                          !.samples_decoded = @ + codec.samples_per_frame]
    /\ UNCHANGED << streamVars, callVars, wpc, res, codec, c2file, epc, enc, speech,
                    exit_code, dpc, dec_exit >>

\* fread gave less than a frame: the loop ends, lines 368-375 release
\* everything (wav_enhanced_close updates the header) and main returns 0
DecFinish ==
    /\ dpc = "decoding"
    /\ \E r \in {fread(c2file, c2pos, BytesPerFrame(codec))} :
         /\ Len(r.bytes) # BytesPerFrame(codec)
         /\ c2pos' = r.fp
    /\ outfile' = wav_enhanced_close(wout, outfile)
    /\ wpc' = "closed"
    /\ res' = {}
    /\ dpc' = "done"
    /\ dec_exit' = 0
    /\ UNCHANGED << streamVars, callVars, wout, outpos, wlast, appended, encVars, dec,
                    decoded >>

NextDecode == DecReject \/ DecStart \/ DecFrame \/ DecFinish

SpecDecode == InitDecode /\ [][NextDecode]_vars

\* ------------------------------------------- runs in which a resource fails
\* lines 386-395 of wav_enhanced_open_read: malloc of the struct fails, or it
\* succeeds and fopen fails and the struct is freed; NULL is returned
OpenReadNoFile ==
    /\ pc = "start"
    /\ epc = "none"
    /\ pc' = "failed"
    /\ ret' = "NULL"
    /\ heap' = {}
    /\ fileOpen' = FALSE
    /\ UNCHANGED << toolVars, container, file, wav, fp, undefined, out, last, total_8khz >>

\* wav_enhanced_close(wav_in) in an error return of the encoder's main
\* (lines 138, 159, 178): the file is closed, the resample buffer and the
\* struct are freed
CloseInput ==
    /\ fileOpen' = FALSE
    /\ heap' = {}
    /\ pc' = "closed"

\* lines 135-140: codec2_create returns NULL
EncCodecFailed ==
    /\ pc = "reading"
    /\ epc = "none"
    /\ CloseInput
    /\ res' = {}
    /\ epc' = "failed"
    /\ exit_code' = 1
    /\ UNCHANGED << container, file, ret, wav, fp, undefined, out, last, total_8khz,
                    callVars, wpc, wout, outfile, outpos, wlast, appended,
                    codec, c2file, enc, speech, decVars >>

\* lines 135-161: the codec is created and fopen of the output fails; the
\* codec is destroyed
EncOutputFailed ==
    /\ pc = "reading"
    /\ epc = "none"
    /\ enc' = [enc EXCEPT !.estimated_frames =
                  (total_8khz + codec.samples_per_frame - 1) \div codec.samples_per_frame]
    /\ CloseInput
    /\ res' = {}                       \* codec2_destroy
    /\ epc' = "failed"
    /\ exit_code' = 1
    /\ UNCHANGED << container, file, ret, wav, fp, undefined, out, last, total_8khz,
                    callVars, wpc, wout, outfile, outpos, wlast, appended,
                    codec, c2file, speech, decVars >>

\* the two frame buffers of a tool
FrameBuffers == {"speech_samples", "codec2_bits"}

\* what the two mallocs of the frame buffers can give when not both succeed
FailedAllocs == (SUBSET FrameBuffers) \ {FrameBuffers}

\* lines 135-181: codec, output and header as in EncSetup, then one or both
\* of the mallocs of lines 172-173 return NULL; lines 177-179 destroy the
\* codec and close the two files, and main returns 1
EncAllocFailed ==
    /\ pc = "reading"
    /\ epc = "none"
    /\ enc' = [enc EXCEPT !.estimated_frames =
                  (total_8khz + codec.samples_per_frame - 1) \div codec.samples_per_frame]
    /\ c2file' = C2Header(codec)
    /\ \E got \in FailedAllocs : res' = got     \* no free of the buffer it got
    /\ CloseInput
    /\ epc' = "failed"
    /\ exit_code' = 1
    /\ UNCHANGED << container, file, ret, wav, fp, undefined, out, last, total_8khz,
                    callVars, wpc, wout, outfile, outpos, wlast, appended,
                    codec, speech, decVars >>

\* lines 220-224 of the decoder: fopen of the input fails
DecInputFailed ==
    /\ dpc = "start"
    /\ dpc' = "failed"
    /\ dec_exit' = 1
    /\ UNCHANGED << streamVars, callVars, writeVars, encVars, c2pos, dec, decoded >>

\* lines 219-311: header, codec and frame count as in DecStart, then
\* wav_enhanced_open_write returns NULL (its malloc or its fopen failed);
\* the codec is destroyed and the input closed
DecOutputFailed ==
    /\ dpc = "start"
    /\ \E r \in {DecodeOpen(c2file)} :
         /\ r.ok
         /\ c2pos' = r.fp
         /\ codec' = r.codec
         /\ dec' = [dec EXCEPT !.total_frames = r.total_frames]
    /\ res' = {}                       \* codec2_destroy, fclose
    /\ dpc' = "failed"
    /\ dec_exit' = 1
    /\ UNCHANGED << streamVars, callVars, wpc, wout, outfile, outpos, wlast, appended,
                    c2file, epc, enc, speech, exit_code, decoded >>

\* lines 219-323: as DecStart, then one or both of the mallocs of lines
\* 314-315 return NULL; lines 319-321 destroy the codec, close the output
\* (wav_enhanced_close) and the input, and main returns 1
DecAllocFailed ==
    /\ dpc = "start"
    /\ \E r \in {DecodeOpen(c2file)} :
         /\ r.ok
         /\ c2pos' = r.fp
         /\ codec' = r.codec
         /\ dec' = [dec EXCEPT !.total_frames = r.total_frames]
    /\ \E w \in {wav_enhanced_open_write("out.wav")} :
          /\ wout' = w.wav
          /\ outfile' = wav_enhanced_close(w.wav, w.file)
          /\ outpos' = w.pos
    /\ wpc' = "closed"
    /\ \E got \in FailedAllocs : res' = got     \* no free of the buffer it got
    /\ dpc' = "failed"
    /\ dec_exit' = 1
    /\ UNCHANGED << streamVars, callVars, wlast, appended, c2file, epc, enc, speech,
                    exit_code, decoded >>

\* the runs of the encoder and of the decoder, with every resource failure
NextFaults ==
    \/ OpenRead \/ GetTotal \/ EncOpenFailed \/ EncSetup \/ EncFrame \/ EncFinish
    \/ DecReject \/ DecStart \/ DecFrame \/ DecFinish
    \/ OpenReadNoFile \/ EncCodecFailed \/ EncOutputFailed \/ EncAllocFailed
    \/ DecInputFailed \/ DecOutputFailed \/ DecAllocFailed

SpecFaults == InitEncode /\ [][NextFaults]_vars

\* the encoder's run alone.  main is sequential code: a pass of its loop that
\* can be made is made, so the two steps of the loop are weakly fair.
NextLoop == OpenRead \/ GetTotal \/ EncOpenFailed \/ EncSetup \/ EncFrame \/ EncFinish

\* the containers of the encoder's runs, with the codecs whose frame is
\* shorter than the longest of them, so that a run makes several passes
InitLoop ==
    /\ InitEncode
    /\ container # HighRateContainer
    /\ codec.samples_per_frame < MaxSamples

SpecLoop ==
    InitLoop /\ [][NextLoop]_vars /\ WF_vars(EncFrame) /\ WF_vars(EncFinish)

\* the encoder's run, and then the decoder's run on the file it wrote
NextEncode ==
    \/ OpenRead \/ GetTotal \/ EncOpenFailed \/ EncSetup \/ EncFrame \/ EncFinish
    \/ DecReject \/ DecStart \/ DecFrame \/ DecFinish

SpecEncode == InitEncode /\ [][NextEncode]_vars

\* ------------------------------------------------------ facts about the input
IsPrefix(a, b) == Len(a) <= Len(b) /\ a = SubSeq(b, 1, Len(a))

\* offset in the untruncated file of the header of chunk i
ChunkStart(chunks, i) == 12 + Len(ChunkBytes(SubSeq(chunks, 1, i - 1)))

\* index of the first data chunk of a chunk list, 0 when there is none
FirstData(chunks) ==
    IF \E i \in 1..Len(chunks) : chunks[i].tag = FOURCC_DATA
    THEN CHOOSE i \in 1..Len(chunks) :
            /\ chunks[i].tag = FOURCC_DATA
            /\ \A j \in 1..(i - 1) : chunks[j].tag # FOURCC_DATA
    ELSE 0

FmtBefore(chunks, i) == \E j \in 1..(i - 1) : chunks[j].tag = FOURCC_FMT

UnknownBefore(chunks, i) ==
    { j \in 1..(i - 1) : chunks[j].tag \notin {FOURCC_FMT, FOURCC_DATA} }

HeaderGood(c) == c.magic = FOURCC_RIFF /\ c.form = FOURCC_WAVE /\ c.keep >= 12

Untruncated(c) == c.keep = Len(FullBytes(c.magic, c.form, c.chunks))

\* the 4 tag bytes of chunk i are in the file
TagInFile(c, i) == ChunkStart(c.chunks, i) + 4 <= c.keep

\* the tag and the size field of chunk i are in the file
ChunkHeaderInFile(c, i) == ChunkStart(c.chunks, i) + 8 <= c.keep

\* chunk i starts in the file and its declared size ends after the file's end
ChunkPastEnd(c, i) ==
    /\ ChunkHeaderInFile(c, i)
    /\ ChunkStart(c.chunks, i) + 8 + c.chunks[i].size > c.keep

\* the chunks the scan visits: up to the first data chunk
Visited(c) ==
    LET d == FirstData(c.chunks)
    IN  IF d = 0 THEN 1..Len(c.chunks) ELSE 1..d

\* a well-formed container: header, every chunk whole, a format chunk before
\* the data chunk
WellFormed(c) ==
    /\ HeaderGood(c)
    /\ Untruncated(c)
    /\ FirstData(c.chunks) # 0
    /\ FmtBefore(c.chunks, FirstData(c.chunks))

IsKnown(ch) == ch.tag \in {FOURCC_FMT, FOURCC_DATA}

\* the same container without its unknown chunks
Stripped(c) ==
    LET cs == SelectSeq(c.chunks, IsKnown)
    IN  [c EXCEPT !.chunks = cs, !.keep = Len(FullBytes(c.magic, c.form, cs))]

\* the open call has returned (it did not end the process)
Returned == pc \in {"opened", "reading", "failed", "closed"}

\* the mono samples of a mono container that is read
SourceSamples == [i \in 1..Len(container.frames) |-> container.frames[i][1]]

\* the last read call found the end of the stream
Finished == last.n > 0 /\ last.ret = 0 /\ fp.eof

\* The whole output of a stream read n samples per call, from the state the
\* open call leaves, until a call returns 0
RECURSIVE Drain(_, _, _, _, _)
Drain(f, w, p, n, acc) ==
    Only({ IF r.ret = 0 THEN acc ELSE Drain(f, r.wav, r.fp, n, acc \o r.out)
           : r \in {ReadCall(f, w, p, n)} })

OutputByChunks(f, n) ==
    Only({ Drain(f, r.wav, r.fp, n, << >>) : r \in {wav_enhanced_open_read(f)} })

\* ------------------------------------------------------------------ claims

\* C1: at 8000 Hz mono 16-bit the samples returned by successive read calls
\* are, in order and with none dropped, the samples of the file: what was
\* returned so far is a prefix of them, and all of them once the stream ended.
C1_PassthroughIdentity ==
    (container.rate = 8000 /\ container.channels = 1 /\ container.bits = 16)
        => /\ IsPrefix(out, SourceSamples)
           /\ Finished => out = SourceSamples

\* C2: for a source rate other than 8000 Hz the concatenated output does not
\* depend on the chunking: read with any request sizes to the end, it equals
\* the output of reading the same file one sample per call.
C2_ChunkingIndependent ==
    (container.rate \notin {0, 8000} /\ Finished)
        => out = OutputByChunks(file, 1)

\* C3: in every read call that returns N > 0 samples the file cursor advances
\* by floor(phase + N * r) source frames, the whole-sample advance of the
\* resampler position.
C3_CursorFollowsPosition ==
    (container.rate # 0 /\ last.n > 0 /\ last.ret > 0)
        => (last.pos1 - last.pos0)
             = FrameBytes(wav) * ((last.phase0 + last.ret * container.rate) \div TARGET_RATE)

\* C4: the open fails when a chunk it visits declares a size that ends after
\* the end of the file, the data chunk included; a returned stream has its
\* data region inside the file.
C4_ChunkSizesValidated ==
    ret = "stream"
        => /\ \A i \in Visited(container) : ~ChunkPastEnd(container, i)
           /\ wav.data_start_pos + wav.data_size <= Len(file)

\* C5: unknown chunks before the data chunk of a well-formed container change
\* nothing the open finds: same format tag, channels, rate, bits and data
\* size as for the container without them, and the data region is the data
\* chunk's payload in both.
C5_ChunkSkip ==
    (Returned /\ WellFormed(container))
        => \A r \in {wav_enhanced_open_read(Serialize(Stripped(container)))} :
             LET d  == FirstData(container.chunks)
                 sd == FirstData(Stripped(container).chunks)
             IN  /\ ret = "stream" /\ r.ret = "stream"
                 /\ wav.original_format = r.wav.original_format
                 /\ wav.original_channels = r.wav.original_channels
                 /\ wav.original_sample_rate = r.wav.original_sample_rate
                 /\ wav.original_bits_per_sample = r.wav.original_bits_per_sample
                 /\ wav.data_size = r.wav.data_size
                 /\ wav.total_samples = r.wav.total_samples
                 /\ wav.data_size = container.chunks[d].size
                 /\ wav.data_start_pos = ChunkStart(container.chunks, d) + 8
                 /\ r.wav.data_start_pos = ChunkStart(Stripped(container).chunks, sd) + 8
                 /\ fp.pos = wav.data_start_pos
                 /\ SubSeq(file, wav.data_start_pos + 1, wav.data_start_pos + wav.data_size)
                      = container.chunks[d].body

\* C5 witness: a stream opened from a well-formed container with two unknown
\* chunks, one of them not empty, before its data chunk
C5_Witness ==
    /\ pc = "opened"
    /\ WellFormed(container)
    /\ Cardinality(UnknownBefore(container.chunks, FirstData(container.chunks))) >= 2
    /\ \E j \in UnknownBefore(container.chunks, FirstData(container.chunks)) :
          container.chunks[j].size > 0

\* the first four bytes are not the RIFF magic / bytes 8..11 are not WAVE
BadMagic == Len(file) < 4 \/ SubSeq(file, 1, 4) # << 82, 73, 70, 70 >>
BadForm  == Len(file) < 12 \/ SubSeq(file, 9, 12) # << 87, 65, 86, 69 >>

\* C6: with a wrong magic or a wrong form identifier the open returns NULL,
\* and it has closed the file and freed the stream object.
C6_BadHeaderFails ==
    (pc # "start" /\ (BadMagic \/ BadForm))
        => /\ pc = "failed" /\ ret = "NULL"
           /\ ~fileOpen
           /\ heap = {}

\* C6 witness: a failed open of a file with the RIFF magic and a wrong form
C6_Witness == pc = "failed" /\ ~BadMagic /\ BadForm /\ Len(file) >= 12

\* no chunk of the file carries the data tag / the fmt tag
NoDataTag ==
    \A i \in 1..Len(container.chunks) :
        container.chunks[i].tag = FOURCC_DATA => ~TagInFile(container, i)
NoFmtTag ==
    \A i \in 1..Len(container.chunks) :
        container.chunks[i].tag = FOURCC_FMT => ~TagInFile(container, i)

DataBeforeFmt ==
    LET d == FirstData(container.chunks)
    IN  /\ HeaderGood(container)
        /\ d # 0
        /\ ChunkHeaderInFile(container, d)
        /\ ~FmtBefore(container.chunks, d)

\* C8: for a container whose data chunk comes before any format chunk the
\* open returns NULL to its caller, no sample is read, and no undefined
\* operation (a division by a zero frame size) is executed.
C8_DataBeforeFmtFails ==
    (pc # "start" /\ DataBeforeFmt)
        => /\ pc = "failed" /\ ret = "NULL"
           /\ ~undefined
           /\ out = << >>

\* C9: a format chunk with sample rate 0 is rejected: no stream with
\* original_sample_rate = 0 (resample_ratio = 0) is returned or read from.
C9_ZeroRateRejected ==
    ret = "stream" => (wav.original_sample_rate > 0 /\ wav.resample_ratio > 0)

\* C10: for a bit depth other than 8, 16, 24, 32 the read path returns an
\* error to its caller and never produces samples, neither guessed values nor
\* silence.
C10_UnsupportedDepthFails ==
    (container.bits \notin SupportedBits /\ container.rate # 0)
        => /\ out = << >>
           /\ (last.n > 0 /\ Len(container.frames) >= 2) => last.ret < 0

\* the sum of a frame's per-channel values
RECURSIVE FrameSum(_)
FrameSum(fr) == IF fr = << >> THEN 0 ELSE Head(fr) + FrameSum(Tail(fr))

\* q is s / n rounded toward zero (n > 0)
IsTruncMean(q, s, n) ==
    /\ s >= 0 => (q * n <= s /\ s < (q + 1) * n)
    /\ s < 0  => (q * n >= s /\ s > (q - 1) * n)

\* a converted block of stereo 16-bit frames
Stereo16Done == conv.done /\ conv.bits = 16 /\ conv.channels = 2

\* C11 as stated: the sample decoder downmixes the stereo 16-bit frame
\* (100, 300) to 200 and the frame (100, -101) to -1.
C11_DownmixVectors ==
    Stereo16Done
        => \A i \in 1..Len(conv.vals) :
              /\ conv.vals[i] = << 100, 300 >> => conv.output[i] = 200
              /\ conv.vals[i] = << 100, -101 >> => conv.output[i] = -1

\* C11 amended: the sample decoder downmixes the stereo 16-bit frame
\* (100, 300) to 200 and the frame (100, -101) to 0, the mean -0.5 truncated
\* toward zero.
C11_DownmixTruncates ==
    Stereo16Done
        => \A i \in 1..Len(conv.vals) :
              /\ conv.vals[i] = << 100, 300 >> => conv.output[i] = 200
              /\ conv.vals[i] = << 100, -101 >> => conv.output[i] = 0

\* C11 witness: a converted block that holds both frames
C11_Witness ==
    /\ Stereo16Done
    /\ conv.vals = << << 100, 300 >>, << 100, -101 >> >>
    /\ conv.output = << 200, 0 >>

\* the values (byte - 128) * 256 of the channels of frame i of an 8-bit block
Frame8(i) ==
    [ ch \in 1..conv.channels |-> (conv.raw[(i - 1) * conv.channels + ch] - 128) * 256 ]

\* C12: an 8-bit mono byte b decodes to (b - 128) * 256, so 128 gives 0, 255
\* gives 32512 and 0 gives -32768; with more channels the output is the
\* truncating integer mean of the per-channel values (b - 128) * 256.
C12_EightBitDecode ==
    (conv.done /\ conv.bits = 8)
        => /\ Len(conv.output) = Len(conv.vals)
           /\ \A i \in 1..Len(conv.output) :
                 /\ conv.channels = 1 =>
                       /\ conv.output[i] = (conv.raw[i] - 128) * 256
                       /\ conv.raw[i] = 128 => conv.output[i] = 0
                       /\ conv.raw[i] = 255 => conv.output[i] = 32512
                       /\ conv.raw[i] = 0 => conv.output[i] = -32768
                 /\ IsTruncMean(conv.output[i], FrameSum(Frame8(i)), conv.channels)

\* C12 witness: the byte 255 of a mono block decoded
C12_Witness ==
    /\ conv.done /\ conv.bits = 8 /\ conv.channels = 1
    /\ conv.raw = << 255 >>
    /\ conv.output = << 32512 >>

\* C13: for the depths 8, 16, 24 and 32 and every channel count, each output
\* sample is the mean of the frame's per-channel 16-bit-range values
\* truncated toward zero, and it lies in the signed 16-bit range.
C13_TruncatingMean ==
    conv.done
        => /\ Len(conv.output) = Len(conv.vals)
           /\ \A i \in 1..Len(conv.output) :
                 /\ IsTruncMean(conv.output[i], FrameSum(conv.vals[i]), conv.channels)
                 /\ conv.output[i] \in -32768..32767

\* C13 witness: a converted 24-bit block of three channels whose frame has a
\* negative sum that the channel count does not divide
C13_Witness ==
    /\ conv.done /\ conv.bits = 24 /\ conv.channels = 3
    /\ FrameSum(conv.vals[1]) < 0
    /\ FrameSum(conv.vals[1]) % 3 # 0

\* four little-endian bytes at offset off (0-based) of the output file
OutField32(off) ==
    outfile[off + 1] + 256 * outfile[off + 2] + 65536 * outfile[off + 3]
        + 16777216 * outfile[off + 4]

\* two little-endian bytes at offset off of the output file
OutField16(off) == outfile[off + 1] + 256 * outfile[off + 2]

\* the output file is a 44-byte header: RIFF, WAVE, a 16-byte PCM format
\* chunk for mono 8000 Hz 16-bit, and a data chunk header with size 0
EmptyHeader ==
    /\ Len(outfile) = 44
    /\ SubSeq(outfile, 1, 4) = << 82, 73, 70, 70 >>
    /\ SubSeq(outfile, 9, 16) = << 87, 65, 86, 69, 102, 109, 116, 32 >>
    /\ OutField32(16) = 16
    /\ OutField16(20) = 1
    /\ OutField16(22) = 1
    /\ OutField32(24) = 8000
    /\ OutField32(28) = 16000
    /\ OutField16(32) = 2
    /\ OutField16(34) = 16
    /\ SubSeq(outfile, 37, 40) = << 100, 97, 116, 97 >>
    /\ OutField32(40) = 0

\* C14: right after wav_enhanced_open_write the file is the 44-byte header of
\* an empty mono 8000 Hz 16-bit PCM container (byte rate 16000, block align 2,
\* data size 0); when the stream is closed with no sample written the file is
\* still those 44 bytes, the size fields as the open wrote them.
C14_EmptyHeader ==
    /\ (wpc = "open" /\ wlast = NoWrite) => EmptyHeader
    /\ (wpc = "closed" /\ appended = << >>)
          => /\ EmptyHeader
             /\ outfile = wav_enhanced_open_write("out.wav").file

\* C14 witness: a stream closed after write calls that stored no sample
C14_Witness == wpc = "closed" /\ appended = << >> /\ wlast.n > 0

\* C15: after a write stream that stored K samples in all is closed, the data
\* size field holds 2 * K, the top-level size field 36 + 2 * K, the payload
\* is the K samples, and the file opened for read reports K total samples.
C15_HeaderPatchBack ==
    wpc = "closed"
        => LET K == Len(appended)
           IN  /\ Len(outfile) = 44 + 2 * K
               /\ OutField32(40) = 2 * K
               /\ OutField32(4) = 36 + 2 * K
               /\ SubSeq(outfile, 45, 44 + 2 * K) = SampleBytes(appended)
               /\ pc # "start" => (ret = "stream" /\ wav.total_samples = K)
               /\ pc = "reading" => total_8khz = K

\* C15 witness: three samples stored by more than one call, one of them
\* short, the file closed, opened for read and its total asked for
C15_Witness ==
    /\ wpc = "closed"
    /\ Len(appended) = 3
    /\ wlast.ret < wlast.n
    /\ pc = "reading"
    /\ total_8khz = 3

\* the encoder's input is 8000 Hz mono 16-bit: its samples are the samples
\* to encode
Passthrough == container.rate = 8000 /\ container.channels = 1 /\ container.bits = 16

\* the frames written to the compressed file, counted from its length
FramesInFile == (Len(c2file) - 16) \div BytesPerFrame(codec)

\* C16: when samples_per_frame - 1 samples of an 8000 Hz mono 16-bit input
\* are left over after its last full frame, the encoder has written, when it
\* ends, one frame more than the full frames: the leftover samples followed by
\* a zero; the read after it returned 0 and nothing more was written.
C16_FramePadding ==
    LET S   == Len(container.frames)
        spf == codec.samples_per_frame
    IN  (epc = "done" /\ Passthrough /\ S % spf = spf - 1)
            => /\ enc.frames_encoded = S \div spf + 1
               /\ Len(speech) = S \div spf + 1
               /\ speech[Len(speech)].samples
                     = SubSeq(SourceSamples, S - spf + 2, S) \o << 0 >>
               /\ FramesInFile = S \div spf + 1
               /\ last.ret = 0

\* C17: a frame of the encode loop that was zero-padded (its read returned
\* fewer samples than the frame size) is the last frame written: every frame
\* before the last one took a whole frame of samples from the read.
C17_PaddedFrameIsFinal ==
    \A i \in 1..(Len(speech) - 1) : speech[i].samples_read = codec.samples_per_frame

\* C18: for an 8000 Hz mono 16-bit input of S samples the encoder writes
\* ceil(S / samples_per_frame) frames, and the decoder's run on that file
\* decodes that many frames and frame_count * samples_per_frame samples.
C18_FrameCount ==
    LET S   == Len(container.frames)
        spf == codec.samples_per_frame
        frame_count == (S + spf - 1) \div spf
    IN  (epc = "done" /\ Passthrough)
            => /\ enc.frames_encoded = frame_count
               /\ FramesInFile = frame_count
               /\ dpc = "done" => /\ dec.frames_decoded = frame_count
                                  /\ dec.samples_decoded = frame_count * spf

\* the compressed file has a whole header that the decoder accepts: the magic,
\* a mode of the library and that mode's frame geometry
GoodC2Header ==
    /\ Len(c2file) >= 16
    /\ \E g \in Geometries : SubSeq(c2file, 1, 16) = C2Header(g)

\* the frame geometry the header of the compressed file declares
Declared == CHOOSE g \in Geometries : SubSeq(c2file, 1, 16) = C2Header(g)

\* the bytes after the header
DataBytes == Len(c2file) - 16

\* the last frame of the file is shorter than the declared frame length
ShortFinalFrame == GoodC2Header /\ DataBytes % BytesPerFrame(Declared) # 0

\* C19: for a compressed file whose final frame is shorter than the declared
\* frame byte length the decoder's run ends with a non-zero status, and it has
\* decoded and written nothing (runs in which the output device failed are
\* left aside).
C19_ShortFrameRejected ==
    (ShortFinalFrame /\ dpc \in {"done", "failed"} /\ ~wlast.short)
        => /\ dec_exit # 0
           /\ decoded = << >>
           /\ appended = << >>

\* C20: for a compressed file with a good header, cut in a frame or not, the
\* decoder counts and decodes floor(data_bytes / bytes_per_frame) frames: the
\* frames given to codec2_decode are the whole frames of the file in order,
\* never the partial tail, nothing is read past the end, and when the run
\* ends samples_per_frame samples per frame were given to the writer; with no
\* short write the output holds exactly that many samples.
C20_WholeFramesOnly ==
    GoodC2Header
        => LET bpf == BytesPerFrame(Declared)
               n   == DataBytes \div bpf
           IN  /\ Len(decoded) <= n
               /\ \A i \in 1..Len(decoded) :
                     decoded[i] = SubSeq(c2file, 16 + (i - 1) * bpf + 1, 16 + i * bpf)
               /\ c2pos.pos <= Len(c2file)
               /\ dec.frames_decoded = Len(decoded)
               /\ dpc \in {"decoding", "done"} => dec.total_frames = n
               /\ dpc \in {"done", "failed"}
                     => /\ dec.frames_decoded = n
                        /\ dec.samples_decoded = n * Declared.samples_per_frame
                        /\ ~wlast.short => Len(appended) = n * Declared.samples_per_frame
                        /\ dpc = "done" => /\ OutField32(40) = 2 * Len(appended)
                                           /\ Len(outfile) = 44 + 2 * Len(appended)

\* C20 witness: a finished run on a file cut in its third frame, two frames
\* decoded and all their samples written
C20_Witness ==
    /\ dpc = "done"
    /\ ShortFinalFrame
    /\ Len(decoded) = 2
    /\ ~wlast.short
    /\ Len(appended) = 2 * codec.samples_per_frame

\* the compressed file has 16 bytes of header and its first word is not the
\* C2C2 magic
WrongC2Magic == Len(c2file) >= 16 /\ HeaderWord(c2file, 0) # C2_MAGIC

\* the header has the magic and a mode of the library, and its samples or
\* bits per frame are not those of the codec created for the mode
GeometryMismatch ==
    /\ Len(c2file) >= 16
    /\ HeaderWord(c2file, 0) = C2_MAGIC
    /\ \E c \in {codec2_create(HeaderWord(c2file, 1))} :
          /\ c # NoCodec
          /\ \/ c.samples_per_frame # HeaderWord(c2file, 2)
             \/ c.bits_per_frame # HeaderWord(c2file, 3)

\* C21: when the magic of the compressed file is not C2C2, or the header's
\* samples or bits per frame differ from those of the codec created for the
\* header's mode, the decoder's run ends with a non-zero status; the output
\* container is never created and no frame is decoded.
C21_BadHeaderRejected ==
    (dpc # "start" /\ (WrongC2Magic \/ GeometryMismatch))
        => /\ dpc = "failed"
           /\ dec_exit # 0 /\ dec_exit # -1
           /\ wpc = "none"
           /\ outfile = << >>
           /\ decoded = << >>
           /\ appended = << >>
           /\ dec.frames_decoded = 0

\* C21 witness: a run that ended on a header with the magic, a mode of the
\* library and one sample per frame more than the mode's, with whole frames
\* after the header
C21_Witness ==
    /\ dpc = "failed"
    /\ GeometryMismatch
    /\ Len(c2file) - 16 >= 2 * BytesPerFrame(codec)
    /\ codec # NoCodec

\* what the encoder's main holds of the input stream: nothing
InputReleased == heap = {} /\ ~fileOpen

DecodedOne == decoded' # decoded

\* C23: a write call of the decode loop that stores fewer samples than it was
\* asked to is not fatal: the call returns the number stored (0 to the
\* number asked), samples_written grows by that number and bytes_written by
\* twice that number, the short call is noted (the warning), and the loop
\* goes on: the run does not end in that pass, and when it ends, with status
\* 0, every whole frame of the file was decoded.
C23_ShortWriteNotFatal ==
    /\ [][ DecodedOne
              => /\ wlast'.n = codec.samples_per_frame
                 /\ wlast'.ret \in 0..wlast'.n
                 /\ Len(appended') = Len(appended) + wlast'.ret
                 /\ wout'.samples_written = wout.samples_written + wlast'.ret
                 /\ wout'.bytes_written = wout.bytes_written + 2 * wlast'.ret
                 /\ wlast'.short = (wlast.short \/ wlast'.ret < wlast'.n)
                 /\ dec'.frames_decoded = dec.frames_decoded + 1
                 /\ dpc' = "decoding" /\ dec_exit' = -1 ]_vars
    /\ [](dpc = "done" => /\ dec_exit = 0
                          /\ dec.frames_decoded = dec.total_frames
                          /\ wout.samples_written = Len(appended)
                          /\ OutField32(40) = 2 * Len(appended))

\* C23 witness: a finished run of two frames in which the write of the first
\* frame was short and the write of the second was whole
C23_Witness ==
    /\ dpc = "done"
    /\ Len(decoded) = 2
    /\ wlast.short
    /\ wlast.ret = wlast.n
    /\ Len(appended) = 2 * codec.samples_per_frame - 1

\* the format chunks before chunk d of a chunk list
FmtsBefore(chunks, d) == { j \in 1..(d - 1) : chunks[j].tag = FOURCC_FMT }

\* the last of them
LastFmt(chunks, d) ==
    CHOOSE j \in FmtsBefore(chunks, d) : \A k \in FmtsBefore(chunks, d) : k <= j

\* the fields a format chunk's payload declares
FmtTag(ch)      == ch.body[1] + 256 * ch.body[2]
FmtChannels(ch) == ch.body[3] + 256 * ch.body[4]
FmtRate(ch)     == ch.body[5] + 256 * ch.body[6] + 65536 * ch.body[7]
                       + 16777216 * ch.body[8]
FmtBits(ch)     == ch.body[15] + 256 * ch.body[16]

\* C24: when a container holds several format chunks before its data chunk,
\* the origin format of the opened stream (format tag, channels, sample rate,
\* bits per sample) is that of the last format chunk before the data chunk.
C24_LastFmtWins ==
    ret = "stream"
        => LET d == FirstData(container.chunks)
               j == LastFmt(container.chunks, d)
           IN  /\ FmtsBefore(container.chunks, d) # {}
               /\ wav.original_format = FmtTag(container.chunks[j])
               /\ wav.original_channels = FmtChannels(container.chunks[j])
               /\ wav.original_sample_rate = FmtRate(container.chunks[j])
               /\ wav.original_bits_per_sample = FmtBits(container.chunks[j])
               /\ wav.resample_ratio = FmtRate(container.chunks[j])

\* C24 witness: a stream opened from a container with a stereo 12000 Hz
\* format chunk, then a mono 8000 Hz format chunk, then the data chunk
C24_Witness ==
    /\ pc = "opened"
    /\ Len(container.chunks) >= 3
    /\ \E i \in 1..(Len(container.chunks) - 2) :
          /\ container.chunks[i] = FmtChunk(WAV_FORMAT_PCM, 2, 12000, 16, 2)
          /\ container.chunks[i + 1] = FmtChunk(WAV_FORMAT_PCM, 1, 8000, 16, 0)
          /\ FirstData(container.chunks) = i + 2
    /\ wav.original_channels = 1
    /\ wav.original_sample_rate = 8000

\* C25: in every state of a read stream the resample phase lies in [0, 1)
\* and is (output samples produced so far * origin rate / 8000) mod 1, for
\* every sequence of read calls.  The phase is held as its numerator over
\* TARGET_RATE, so the ratios are exact rationals.
C25_PhaseInvariant ==
    ret = "stream"
        => /\ wav.resample_phase \in 0..(TARGET_RATE - 1)
           /\ wav.samples_read = Len(out)
           /\ wav.resample_phase
                 = (Len(out) * wav.original_sample_rate) % TARGET_RATE

\* C25 witness: a read call that started with the phase one half, left by an
\* earlier call, and returned samples
C25_Witness ==
    /\ pc = "reading"
    /\ last.phase0 = TARGET_RATE \div 2
    /\ last.ret > 0
    /\ Len(out) >= 2

\* v is x / TARGET_RATE rounded to a nearest integer
IsNearest(v, x) == 2 * (v * TARGET_RATE - x) \in (-TARGET_RATE)..TARGET_RATE

\* the interpolated value of output k (1-based) of the call, times
\* TARGET_RATE: p = phase + (k - 1) * r, idx = floor(p), frac = p - idx
ExactOutput(k) ==
    LET p    == rs.phase + (k - 1) * rs.rate
        idx  == p \div TARGET_RATE
        frac == p % TARGET_RATE
    IN  rs.input[idx + 1] * TARGET_RATE + frac * (rs.input[idx + 2] - rs.input[idx + 1])

\* C26: for a ratio other than 1, each output of resample_to_8khz is
\* sample[idx] + frac * (sample[idx + 1] - sample[idx]) rounded to the nearest
\* integer, and it lies in -32768..32767.
C26_InterpolationRounds ==
    (rs.done /\ rs.rate # TARGET_RATE)
        => \A k \in 1..Len(rs.output) :
              /\ IsNearest(rs.output[k], ExactOutput(k))
              /\ rs.output[k] \in -32768..32767

\* C29: in every call of resample_to_8khz, for every phase, ratio and input
\* length (0 and 1 included), every src_idx of the loop has 0 <= src_idx and
\* src_idx + 1 < input_samples, every index read is inside the input, and
\* the outputs are never more than max_output_samples.
C29_IndicesInBounds ==
    rs.done
        => /\ \A i \in rs.idx : 0 <= i /\ i + 1 < Len(rs.input)
           /\ \A i \in rs.reads : 0 <= i /\ i < Len(rs.input)
           /\ Len(rs.output) <= rs.max
           /\ rs.rate # TARGET_RATE => Cardinality(rs.idx) <= Len(rs.output)

\* C29 witness: a call at the ratio 3/4 with the phase 3/4 whose loop was
\* left by the break, after it read the last two samples of its input
C29_Witness ==
    /\ rs.done
    /\ rs.rate = 6000 /\ rs.phase = 6000
    /\ Len(rs.input) = MaxInput
    /\ Len(rs.output) > 0 /\ Len(rs.output) < rs.max
    /\ (Len(rs.input) - 1) \in rs.reads

\* the signed integer that the three little-endian bytes of channel sample k
\* (0-based) of a 24-bit block form, bit 23 being the sign
Signed24(k) ==
    LET u == conv.raw[3 * k + 1] + 256 * conv.raw[3 * k + 2] + 65536 * conv.raw[3 * k + 3]
    IN  IF u >= 8388608 THEN u - 16777216 ELSE u

\* v is s shifted right arithmetically by 8
IsShifted8(v, s) == v * 256 <= s /\ s < (v + 1) * 256

\* the sum of the per-channel values of frame i (1-based) of a 24-bit block,
\* from channel ch on (\div rounds down, as the arithmetic shift does)
RECURSIVE Sum24(_, _)
Sum24(i, ch) ==
    IF ch >= conv.channels THEN 0
    ELSE (Signed24((i - 1) * conv.channels + ch) \div 256) + Sum24(i, ch + 1)

\* C27: for 24-bit input each channel value is the signed integer of three
\* little-endian bytes, bit 23 sign-extended, shifted right arithmetically by
\* 8, so that every pattern maps into -32768..32767: 0x7FFFFF gives 32767,
\* 0x800000 gives -32768 and 0xFFFFFF gives -1; the output is that value for
\* one channel and the truncating mean of the values for more.
C27_SignExtension24 ==
    (conv.done /\ conv.bits = 24)
        => \A i \in 1..Len(conv.output) :
              /\ conv.output[i] \in -32768..32767
              /\ conv.channels = 1 =>
                    /\ IsShifted8(conv.output[i], Signed24(i - 1))
                    /\ Signed24(i - 1) = 8388607 => conv.output[i] = 32767
                    /\ Signed24(i - 1) = -8388608 => conv.output[i] = -32768
                    /\ Signed24(i - 1) = -1 => conv.output[i] = -1
              /\ IsTruncMean(conv.output[i], Sum24(i, 0), conv.channels)

\* C27 witness: the pattern 0xFFFFFF of a mono block decoded to -1
C27_Witness ==
    /\ conv.done /\ conv.bits = 24 /\ conv.channels = 1
    /\ conv.raw = << 255, 255, 255 >>
    /\ conv.output = << -1 >>

\* the bytes of the file that the read calls have consumed so far
Consumed == fp.pos - wav.data_start_pos

\* C28: over any sequence of read calls the source bytes consumed from the
\* file are never more than data_size: the cursor never passes
\* data_start_pos + data_size, so no byte after the data chunk (a chunk that
\* follows it) is decoded as a sample, and the samples returned are never
\* more than the data chunk holds.
C28_ReadsStayInData ==
    ret = "stream"
        => /\ Consumed <= wav.data_size
           /\ fp.pos <= wav.data_start_pos + wav.data_size
           /\ wav.original_sample_rate = TARGET_RATE => Len(out) <= wav.total_samples

\* a read call made now, asking for n samples, returns 0 and changes nothing
ReadsNothing(n) ==
    \A r \in {ReadCall(file, wav, fp, n)} :
        /\ r.ret = 0
        /\ r.out = << >>
        /\ r.wav = wav
        /\ r.fp = fp

\* C30: for every container that opens (one channel or more, a supported bit
\* depth) the encode loop terminates: a read call returns 0 in the end and
\* main returns; every read call that returns a positive count has moved the
\* file cursor forward by one source frame or more; and after the call that
\* returned 0 at the end of the file, a read call of any size returns 0 and
\* leaves the stream as it is, so every later call returns 0 as well.
C30_EncodeLoopTerminates ==
    /\ (epc = "encoding") ~> (epc = "done" /\ last.ret = 0 /\ exit_code = 0)
    /\ [][ speech' # speech
              => /\ last'.ret > 0
                 /\ last'.pos0 = fp.pos /\ last'.pos1 = fp'.pos
                 /\ fp'.pos - fp.pos >= FrameBytes(wav)
                 /\ fp'.pos <= Len(file) ]_vars
    /\ [](epc = "done"
            => /\ fp.eof
               /\ \A n \in (1..MaxReq) \cup {codec.samples_per_frame} : ReadsNothing(n))

\* C30 witness: a finished encoder run on a stereo container at 4000 Hz that
\* made three passes of the loop
C30_Witness ==
    /\ epc = "done"
    /\ container.rate = 4000 /\ container.channels = 2
    /\ Len(speech) = 3
    /\ last.ret = 0

====
